---- MODULE Spec2Model ----
(***************************************************************************)
(* Model of the proactive monitoring subsystem of HeavyHaul AI             *)
(* (services/proactive_monitor.py) and of the delivery step of the voice   *)
(* application (assistant/voice_app.py).                                   *)
(*                                                                         *)
(* Everything runs on one asyncio event loop.  The main coroutine holds    *)
(* the thread while main_pc = "run"; the two background tasks of the       *)
(* monitor advance only while the main coroutine is suspended in an await  *)
(* that really yields (text_to_speech).  A detection cycle contains no     *)
(* await that yields, so it is one atomic step.                            *)
(*                                                                         *)
(* The database is outside the program: what a cycle reads from it is an   *)
(* input of the cycle.  Dates of the order documents are relative to the   *)
(* `now` of the cycle that reads them (days for attached_at, minutes for   *)
(* the deadlines).  A python None is the empty sequence, a present value   *)
(* v is the one-element sequence <<v>>.                                    *)
(***************************************************************************)
EXTENDS Integers, Sequences, FiniteSets, TLC

\* ---------------------------------------------------------------- bounds
MaxOrders == 2
MaxAlerts == 3
MaxStarts == 2
MaxSessionOrders == 1
MaxUserOrders == 4

\* ------------------------------------------------------ program constants
CRITICAL == 1
HIGH == 2
MEDIUM == 3
LOW == 4
PermitValidDays == 7
PermitWarningDays == 3
DeadlineWarningHours == 24
SummaryMax == 5

None == <<>>
Some(v) == <<v>>
IsNone(x) == x = <<>>
Val(x) == x[1]

OrderIds == 1..MaxOrders
Gens == 1..MaxStarts

Min(a, b) == IF a < b THEN a ELSE b

\* The elements of a set of integers as an ascending sequence.
RECURSIVE SetToSeq(_)
SetToSeq(S) ==
    IF S = {} THEN <<>>
    ELSE LET x == CHOOSE y \in S : \A z \in S : y <= z
         IN <<x>> \o SetToSeq(S \ {x})

\* ----------------------------------------------------- order documents
\* A date value of a document: absent, a string no format parses, or a
\* parseable date at distance `rel` from now (days for attached_at, minutes
\* for the deadline fields).
NoDate == [present |-> FALSE, parseable |-> FALSE, rel |-> 0]
BadDate == [present |-> TRUE, parseable |-> FALSE, rel |-> 0]
DateAt(r) == [present |-> TRUE, parseable |-> TRUE, rel |-> r]

\* One routeData entry: product_name, attached_at, permit_status.
RouteEntry(name, att, st) ==
    [product_name |-> name, attached_at |-> att, permit_status |-> st]

\* An order document: the status field found by _extract_order_status (None
\* when no status field is set), order.routeData, the three deadline fields
\* and the origin/destination city fields.
Doc(st, route, dd, ed, est, cities) ==
    [status |-> st, routeData |-> route, delivery_date |-> dd,
     end_date |-> ed, estimated_delivery |-> est, cities |-> cities]

DocOpen == Doc(Some("open"), <<>>, NoDate, NoDate, NoDate, {})
DocDelivered == Doc(Some("delivered"), <<>>, NoDate, NoDate, NoDate, {})
DocPermit ==
    Doc(Some("open"), <<RouteEntry("TX", DateAt(-8), "Rejected")>>,
        DateAt(720), NoDate, NoDate, {})

DocSet == {DocOpen, DocDelivered, DocPermit}

\* db.orders.find_one({"id": oid}) returns None or a document.
MaybeDocs == {None} \cup {Some(d) : d \in DocSet}

\* What the database holds when a task reads it: uo, the order_ids of the
\* user's driver or client document; docs, the orders collection.  Other
\* parties write the database between two cycles, so every cycle may find
\* any content; the reads of one cycle see one content.
\* A driver or client session reads only the documents of the orders of
\* uo, so docs is None elsewhere.
DbContents ==
    {db \in [uo : SUBSET OrderIds, docs : [OrderIds -> MaybeDocs]] :
        \A o \in OrderIds \ db.uo : db.docs[o] = None}
EmptyDb == [uo |-> {}, docs |-> [o \in OrderIds |-> None]]

\* The contents the session of the voice application is followed over: the
\* user has up to MaxSessionOrders orders, whose documents carry a status
\* only.
SessionDbs ==
    {db \in DbContents :
        /\ db.uo \subseteq 1..MaxSessionOrders
        /\ \A o \in db.uo :
              db.docs[o] \in {None, Some(DocOpen), Some(DocDelivered)}}

\* ---------------------------------------------------------------- state
VARIABLES
    running,              \* ProactiveMonitor._running
    fast,                 \* the _monitor_loop task of each start()
    weather,              \* the _weather_loop task of each start()
    gen,                  \* number of start() calls that created tasks
    alert_queue,          \* ProactiveMonitor.alert_queue
    delivered_keys,       \* ProactiveMonitor._delivered_keys
    last_order_statuses,  \* ProactiveMonitor._last_order_statuses
    last_order_ids,       \* ProactiveMonitor._last_order_ids
    warned_permits,       \* ProactiveMonitor._warned_permits
    warned_deadlines,     \* ProactiveMonitor._warned_deadlines
    next_uid,             \* identity of the next ProactiveAlert object
    main_pc,              \* position of the main coroutine
    summary,              \* summary being spoken by _deliver_proactive_alerts
    event,                \* the last step taken and its inputs (observation)
    user_role,            \* voice_app.user_role of the session
    current_order_id,     \* OrderCache.current_order_id
    current_details,      \* OrderCache.current_details
    explanation,          \* OrderCache.explanation
    cache_files,          \* order ids with a file order_{id}_{role}.json
    reply,                \* the last query handled and its outcome (observation)
    settings,             \* config.settings.settings, read from the environment
    filtered              \* the last call of filter_order_by_role (observation)

vars == <<running, fast, weather, gen, alert_queue,
          delivered_keys, last_order_statuses, last_order_ids,
          warned_permits, warned_deadlines, next_uid, main_pc, summary,
          event, user_role, current_order_id, current_details, explanation,
          cache_files, reply, settings, filtered>>

monVars == <<alert_queue, delivered_keys, last_order_statuses,
             last_order_ids, warned_permits, warned_deadlines, next_uid>>
taskVars == <<running, fast, weather, gen>>
cacheVars == <<current_order_id, current_details, explanation, cache_files>>
asstVars == <<user_role, cacheVars, reply, settings, filtered>>

\* ---------------------------------------------------------- alert model
\* A ProactiveAlert.  title and message are the f-strings of the code kept
\* as tuples of their parts; created_at is kept as `old`, whether the alert
\* is older than the 24 hours of clear_old_alerts; uid is the identity of
\* the python object.
Title(label, oid, name) == <<label, oid, name>>
Message(type, oid, a, b, n) == <<type, oid, a, b, n>>

ProactiveAlert(type, prio, title, message, oid) ==
    [alert_type |-> type, priority |-> prio, title |-> title,
     message |-> message, order_id |-> oid, delivered |-> FALSE,
     old |-> FALSE, uid |-> 0]

\* ProactiveAlert.__lt__
AlertLt(a, b) == a.priority < b.priority

\* ProactiveMonitor._alert_key
AlertKey(a) == <<a.alert_type, a.order_id, a.title>>

\* The key "weather_{oid}_{city}" that _check_route_weather records.
WeatherKey(oid, city) == <<"weather", oid, Title("", 0, city)>>

\* str.lower() on the status strings of the documents.
Lower(s) ==
    CASE s = "Rejected" -> "rejected"
      [] s = "EXPIRED" -> "expired"
      [] s = "Delivered" -> "delivered"
      [] OTHER -> s

\* The monitor's fields as one record, threaded through the phases of a
\* cycle: q alert_queue, keys _delivered_keys, los _last_order_statuses,
\* loi _last_order_ids, wp _warned_permits, wd _warned_deadlines, uid the
\* next object identity, att the keys handed to _enqueue_alert in this step.
MonitorState ==
    [q |-> alert_queue, keys |-> delivered_keys, los |-> last_order_statuses,
     loi |-> last_order_ids, wp |-> warned_permits, wd |-> warned_deadlines,
     uid |-> next_uid, att |-> {}]

\* _enqueue_alert without the test of the recorded keys.
EnqueueAlert_NoDedup(m, a) ==
    [m EXCEPT !.q = Append(@, [a EXCEPT !.uid = m.uid]),
              !.uid = @ + 1,
              !.att = @ \cup {AlertKey(a)}]

\* ProactiveMonitor._enqueue_alert
EnqueueAlert(m, a) ==
    IF AlertKey(a) \notin m.keys
    THEN [m EXCEPT !.q = Append(@, [a EXCEPT !.uid = m.uid]),
                   !.uid = @ + 1,
                   !.att = @ \cup {AlertKey(a)}]
    ELSE [m EXCEPT !.att = @ \cup {AlertKey(a)}]

\* ProactiveMonitor._get_user_order_ids for a driver or client: the
\* order_ids of the user document, [] when the lookup raises.
GetUserOrderIds(uo, fails) == IF fails THEN <<>> ELSE SetToSeq(uo)

\* ProactiveMonitor._extract_order_status
ExtractOrderStatus(doc) ==
    IF IsNone(doc.status) THEN "unknown" ELSE Val(doc.status)

\* ProactiveMonitor._parse_date: None or the parsed date.
ParseDate(v) == IF v.present /\ v.parseable THEN Some(v.rel) ELSE None

\* A fault plan of one phase: ids, the lookup of the order ids raises
\* inside _get_user_order_ids; bad, the order whose find_one raises (0: none).
NoFault == [ids |-> FALSE, bad |-> 0]
IdsFault == [ids |-> TRUE, bad |-> 0]
DocFaults == {[ids |-> FALSE, bad |-> o] : o \in OrderIds}

\* ProactiveMonitor._take_initial_snapshot, the loop over order_ids.
RECURSIVE SnapshotLoop(_, _, _, _)
SnapshotLoop(m, ids, docs, bad) ==
    IF ids = <<>> \/ Head(ids) = bad THEN m
    ELSE LET oid == Head(ids)
             doc == docs[oid]
             m1 == IF IsNone(doc) THEN m
                   ELSE [m EXCEPT !.los[oid] =
                             Some(ExtractOrderStatus(Val(doc)))]
         IN SnapshotLoop(m1, Tail(ids), docs, bad)

\* ProactiveMonitor._take_initial_snapshot
TakeInitialSnapshot(m, uo, docs, f) ==
    LET order_ids == GetUserOrderIds(uo, f.ids)
        m1 == [m EXCEPT !.loi = {order_ids[i] : i \in DOMAIN order_ids}]
    IN SnapshotLoop(m1, order_ids, docs, f.bad)

\* ProactiveMonitor._check_order_status_changes, the loop over order_ids.
RECURSIVE StatusLoop(_, _, _, _)
StatusLoop(m, ids, docs, bad) ==
    IF ids = <<>> \/ Head(ids) = bad THEN m
    ELSE LET oid == Head(ids)
             doc == docs[oid]
         IN IF IsNone(doc) THEN StatusLoop(m, Tail(ids), docs, bad)
            ELSE LET current_status == ExtractOrderStatus(Val(doc))
                     previous_status == m.los[oid]
                     alert == ProactiveAlert("order_status", HIGH,
                                  Title("Order status changed", oid, ""),
                                  Message("order_status", oid,
                                          Val(previous_status),
                                          current_status, 0),
                                  oid)
                     m1 == IF ~IsNone(previous_status)
                              /\ current_status # Val(previous_status)
                           THEN EnqueueAlert(m, alert)
                           ELSE m
                     m2 == [m1 EXCEPT !.los[oid] = Some(current_status)]
                 IN StatusLoop(m2, Tail(ids), docs, bad)

\* ProactiveMonitor._check_order_status_changes
CheckOrderStatusChanges(m, uo, docs, f) ==
    StatusLoop(m, GetUserOrderIds(uo, f.ids), docs, f.bad)

\* ProactiveMonitor._check_new_order_assignments, the loop over new_ids.
RECURSIVE NewOrderLoop(_, _)
NewOrderLoop(m, ids) ==
    IF ids = <<>> THEN m
    ELSE LET oid == Head(ids)
             alert == ProactiveAlert("new_order", MEDIUM,
                          Title("New order assigned", oid, ""),
                          Message("new_order", oid, "", "", 0), oid)
         IN NewOrderLoop(EnqueueAlert(m, alert), Tail(ids))

\* ProactiveMonitor._check_new_order_assignments
CheckNewOrderAssignments(m, uo, f) ==
    LET ids == GetUserOrderIds(uo, f.ids)
        current_order_ids == {ids[i] : i \in DOMAIN ids}
        new_ids == current_order_ids \ m.loi
        m1 == NewOrderLoop(m, SetToSeq(new_ids))
    IN [m1 EXCEPT !.loi = current_order_ids]


\* The body of the loop over the route entries without the test of
\* _warned_permits at its head.
PermitEntry_NoWarnedTest(m, oid, e) ==
    LET state_name == e.product_name
        permit_key == <<oid, state_name>>
        attach_date == ParseDate(e.attached_at)
        days_until_expiry == Val(attach_date) + PermitValidDays
        expired == ProactiveAlert("permit_expired", CRITICAL,
                       Title("Permit expired", 0, state_name),
                       Message("permit_expired", oid, state_name, "",
                               0 - days_until_expiry),
                       oid)
        expiring == ProactiveAlert("permit_expiring", HIGH,
                        Title("Permit expiring", 0, state_name),
                        Message("permit_expiring", oid, state_name, "",
                                days_until_expiry),
                        oid)
        issue == ProactiveAlert("permit_issue", CRITICAL,
                     Title("Permit issue", 0, state_name),
                     Message("permit_issue", oid, state_name,
                             e.permit_status, 0),
                     oid)
        m1 == IF e.attached_at.present /\ ~IsNone(attach_date)
              THEN IF days_until_expiry < 0
                   THEN [EnqueueAlert(m, expired) EXCEPT
                             !.wp = @ \cup {permit_key}]
                   ELSE IF days_until_expiry <= PermitWarningDays
                   THEN [EnqueueAlert(m, expiring) EXCEPT
                             !.wp = @ \cup {permit_key}]
                   ELSE m
              ELSE m
    IN IF e.permit_status # ""
          /\ Lower(e.permit_status) \in {"expired", "rejected", "cancelled"}
          /\ permit_key \notin m1.wp
       THEN [EnqueueAlert(m1, issue) EXCEPT !.wp = @ \cup {permit_key}]
       ELSE m1

\* ProactiveMonitor._check_permit_expirations, the body of the loop over
\* the route entries of one order, for one entry.
PermitEntry(m, oid, e) ==
    LET state_name == e.product_name
        permit_key == <<oid, state_name>>
        attach_date == ParseDate(e.attached_at)
        days_until_expiry == Val(attach_date) + PermitValidDays
        expired == ProactiveAlert("permit_expired", CRITICAL,
                       Title("Permit expired", 0, state_name),
                       Message("permit_expired", oid, state_name, "",
                               0 - days_until_expiry),
                       oid)
        expiring == ProactiveAlert("permit_expiring", HIGH,
                        Title("Permit expiring", 0, state_name),
                        Message("permit_expiring", oid, state_name, "",
                                days_until_expiry),
                        oid)
        issue == ProactiveAlert("permit_issue", CRITICAL,
                     Title("Permit issue", 0, state_name),
                     Message("permit_issue", oid, state_name,
                             e.permit_status, 0),
                     oid)
        m1 == IF e.attached_at.present /\ ~IsNone(attach_date)
              THEN IF days_until_expiry < 0
                   THEN [EnqueueAlert(m, expired) EXCEPT
                             !.wp = @ \cup {permit_key}]
                   ELSE IF days_until_expiry <= PermitWarningDays
                   THEN [EnqueueAlert(m, expiring) EXCEPT
                             !.wp = @ \cup {permit_key}]
                   ELSE m
              ELSE m
    IN IF permit_key \in m.wp THEN m
       ELSE IF e.permit_status # ""
               /\ Lower(e.permit_status) \in
                      {"expired", "rejected", "cancelled"}
               /\ permit_key \notin m1.wp
            THEN [EnqueueAlert(m1, issue) EXCEPT !.wp = @ \cup {permit_key}]
            ELSE m1

\* The loop over the route entries of one order.
RECURSIVE RouteLoop(_, _, _)
RouteLoop(m, oid, entries) ==
    IF entries = <<>> THEN m
    ELSE RouteLoop(PermitEntry(m, oid, Head(entries)), oid, Tail(entries))

\* ProactiveMonitor._check_permit_expirations, the loop over order_ids.
RECURSIVE PermitLoop(_, _, _, _)
PermitLoop(m, ids, docs, bad) ==
    IF ids = <<>> \/ Head(ids) = bad THEN m
    ELSE LET oid == Head(ids)
             doc == docs[oid]
         IN IF IsNone(doc) THEN PermitLoop(m, Tail(ids), docs, bad)
            ELSE PermitLoop(RouteLoop(m, oid, Val(doc).routeData),
                            Tail(ids), docs, bad)

\* ProactiveMonitor._check_permit_expirations
CheckPermitExpirations(m, uo, docs, f) ==
    PermitLoop(m, GetUserOrderIds(uo, f.ids), docs, f.bad)

\* ProactiveMonitor._check_delivery_deadlines, the loop over the date
\* fields of one order; deadlines are in minutes from now.
RECURSIVE DateFieldLoop(_, _, _, _)
DateFieldLoop(m, oid, doc, fields) ==
    IF fields = <<>> THEN m
    ELSE LET date_val == Head(fields)
             deadline == ParseDate(date_val)
             minutes_remaining == Val(deadline)
             status == ExtractOrderStatus(doc)
             approaching == ProactiveAlert("deadline_approaching", HIGH,
                                Title("Deadline", oid, ""),
                                Message("deadline_approaching", oid, "", "",
                                        minutes_remaining \div 60),
                                oid)
             overdue == ProactiveAlert("deadline_overdue", CRITICAL,
                            Title("Overdue", oid, ""),
                            Message("deadline_overdue", oid, status, "", 0),
                            oid)
         IN IF ~date_val.present \/ IsNone(deadline)
            THEN DateFieldLoop(m, oid, doc, Tail(fields))
            ELSE IF 0 < minutes_remaining
                    /\ minutes_remaining <= DeadlineWarningHours * 60
            THEN [EnqueueAlert(m, approaching) EXCEPT !.wd = @ \cup {oid}]
            ELSE IF minutes_remaining <= 0
                    /\ Lower(status) \notin
                           {"completed", "delivered", "closed"}
            THEN [EnqueueAlert(m, overdue) EXCEPT !.wd = @ \cup {oid}]
            ELSE DateFieldLoop(m, oid, doc, Tail(fields))

\* The loop over order_ids without the test of _warned_deadlines.
RECURSIVE DeadlineLoop_NoWarnedTest(_, _, _, _)
DeadlineLoop_NoWarnedTest(m, ids, docs, bad) ==
    IF ids = <<>> THEN m
    ELSE LET oid == Head(ids)
             doc == docs[oid]
         IN IF oid = bad THEN m
            ELSE IF IsNone(doc)
            THEN DeadlineLoop_NoWarnedTest(m, Tail(ids), docs, bad)
            ELSE DeadlineLoop_NoWarnedTest(
                     DateFieldLoop(m, oid, Val(doc),
                         <<Val(doc).delivery_date, Val(doc).end_date,
                           Val(doc).estimated_delivery>>),
                     Tail(ids), docs, bad)

\* ProactiveMonitor._check_delivery_deadlines, the loop over order_ids.
RECURSIVE DeadlineLoop(_, _, _, _)
DeadlineLoop(m, ids, docs, bad) ==
    IF ids = <<>> THEN m
    ELSE LET oid == Head(ids)
             doc == docs[oid]
         IN IF oid \in m.wd THEN DeadlineLoop(m, Tail(ids), docs, bad)
            ELSE IF oid = bad THEN m
            ELSE IF IsNone(doc) THEN DeadlineLoop(m, Tail(ids), docs, bad)
            ELSE DeadlineLoop(
                     DateFieldLoop(m, oid, Val(doc),
                         <<Val(doc).delivery_date, Val(doc).end_date,
                           Val(doc).estimated_delivery>>),
                     Tail(ids), docs, bad)

\* ProactiveMonitor._check_delivery_deadlines
CheckDeliveryDeadlines(m, uo, docs, f) ==
    DeadlineLoop(m, GetUserOrderIds(uo, f.ids), docs, f.bad)

\* ProactiveMonitor.clear_old_alerts
ClearOldAlerts(q) == SelectSeq(q, LAMBDA a : ~a.delivered \/ ~a.old)

\* The cities of one order in _check_route_weather: the city fields and
\* the non-empty product names of the route entries.
RouteCities(doc) ==
    doc.cities \cup
        ({doc.routeData[i].product_name : i \in DOMAIN doc.routeData} \ {""})

\* The names a city can have in the documents.
CityNames == UNION {RouteCities(d) : d \in DocSet}

\* A fixed order of iteration over a set of city names.
RECURSIVE CitySeq(_)
CitySeq(S) ==
    IF S = {} THEN <<>>
    ELSE LET c == CHOOSE x \in S : TRUE IN <<c>> \o CitySeq(S \ {c})

\* ProactiveMonitor._check_route_weather, the loop over the cities of one
\* order; severe is the set of cities whose weather text is severe.
RECURSIVE CityLoop(_, _, _, _)
CityLoop(m, oid, cities, severe) ==
    IF cities = <<>> THEN m
    ELSE LET city == Head(cities)
             weather_key == WeatherKey(oid, city)
             alert == ProactiveAlert("weather_alert", CRITICAL,
                          Title("Severe weather", 0, city),
                          Message("weather_alert", oid, city, "", 0), oid)
             m1 == IF weather_key \notin m.keys /\ city \in severe
                   THEN [EnqueueAlert(m, alert) EXCEPT
                             !.keys = @ \cup {weather_key}]
                   ELSE m
         IN CityLoop(m1, oid, Tail(cities), severe)

\* ProactiveMonitor._check_route_weather, the loop over order_ids.
RECURSIVE WeatherLoop(_, _, _, _, _)
WeatherLoop(m, ids, docs, bad, severe) ==
    IF ids = <<>> \/ Head(ids) = bad THEN m
    ELSE LET oid == Head(ids)
             doc == docs[oid]
         IN IF IsNone(doc)
               \/ Lower(ExtractOrderStatus(Val(doc))) \in
                      {"completed", "delivered", "closed", "cancelled"}
            THEN WeatherLoop(m, Tail(ids), docs, bad, severe)
            ELSE WeatherLoop(
                     CityLoop(m, oid, CitySeq(RouteCities(Val(doc))), severe),
                     Tail(ids), docs, bad, severe)

\* ProactiveMonitor._check_route_weather
CheckRouteWeather(m, uo, docs, f, severe) ==
    WeatherLoop(m, GetUserOrderIds(uo, f.ids), docs, f.bad, severe)


\* ------------------------------------------------------- delivery API
\* An insertion that puts x before the first element that is not less
\* than x: alerts of equal priority come out in reverse order.
RECURSIVE SortedInsert_Unstable(_, _)
SortedInsert_Unstable(sorted, x) ==
    IF sorted = <<>> THEN <<x>>
    ELSE IF ~AlertLt(Head(sorted), x) THEN <<x>> \o sorted
    ELSE <<Head(sorted)>> \o SortedInsert_Unstable(Tail(sorted), x)

\* list.sort() on the pending alerts: a stable sort that compares with
\* __lt__ only; x goes before the first element it is less than.
RECURSIVE SortedInsert(_, _)
SortedInsert(sorted, x) ==
    IF sorted = <<>> THEN <<x>>
    ELSE IF AlertLt(x, Head(sorted)) THEN <<x>> \o sorted
    ELSE <<Head(sorted)>> \o SortedInsert(Tail(sorted), x)

RECURSIVE SortAlerts(_)
SortAlerts(list) ==
    IF list = <<>> THEN <<>>
    ELSE SortedInsert(SortAlerts(SubSeq(list, 1, Len(list) - 1)),
                      list[Len(list)])

\* ProactiveMonitor.has_alerts
HasAlerts(q) == \E i \in DOMAIN q : ~q[i].delivered

\* ProactiveMonitor.get_pending_alerts
GetPendingAlerts(q) == SortAlerts(SelectSeq(q, LAMBDA a : ~a.delivered))

\* ProactiveMonitor.mark_delivered, on the alert object `alert`.
MarkDelivered(m, alert) ==
    [m EXCEPT !.q = [i \in DOMAIN m.q |->
                        IF m.q[i].uid = alert.uid
                        THEN [m.q[i] EXCEPT !.delivered = TRUE]
                        ELSE m.q[i]],
              !.keys = @ \cup {AlertKey(alert)}]

\* What llm.chat can do: return a text, return the empty string, raise.
LlmOutcomes == {"text", "empty", "raises"}

\* ProactiveMonitor.generate_proactive_summary: None, or the summary with
\* the messages it was made of and the alerts these belong to.
GenerateProactiveSummary(q, llm) ==
    LET pending == GetPendingAlerts(q)
        described == SubSeq(pending, 1, Min(SummaryMax, Len(pending)))
    IN IF pending = <<>> THEN None
       ELSE IF llm = "text"
       THEN Some([kind |-> "llm",
                  messages |-> [i \in DOMAIN described |->
                                   described[i].message],
                  uids |-> {described[i].uid : i \in DOMAIN described}])
       ELSE IF llm = "empty" THEN None
       ELSE Some([kind |-> "raw",
                  messages |-> <<pending[1].message>>,
                  uids |-> {pending[1].uid}])

\* voice_app._deliver_proactive_alerts, the loop that marks the alerts.
RECURSIVE MarkAll(_, _)
MarkAll(m, alerts) ==
    IF alerts = <<>> THEN m
    ELSE MarkAll(MarkDelivered(m, Head(alerts)), Tail(alerts))

\* ------------------------------------------------------------- tasks
NoTask == [pc |-> "none", cancelled |-> FALSE, thrown |-> FALSE]
NewTask == [pc |-> "created", cancelled |-> FALSE, thrown |-> FALSE]

\* Task.done()
Done(t) == t.pc \in {"none", "done"}

\* Task.cancel(), called by stop() on a task that is not done.
Cancel(t) == IF Done(t) THEN t ELSE [t EXCEPT !.cancelled = TRUE]

\* CancelledError is thrown into the task at its next step.
MustCancel(t) == t.cancelled /\ ~t.thrown

\* A loop whose handler of exceptions also catches the cancellation thrown
\* at sleep(poll_interval) and backs off to retry.
FastOnCancel_Retry(pc) == IF pc = "sleep_poll" THEN "sleep_backoff" ELSE "done"

\* _monitor_loop when CancelledError is thrown at its suspension point:
\* before the first step the coroutine never starts, at sleep(poll_interval)
\* the handler breaks, at sleep(10) the error leaves the task.
FastOnCancel(pc) == "done"

\* _weather_loop when CancelledError is thrown at its suspension point.
WeatherOnCancel(pc) == "done"

\* The `while self._running` test both loops make before they sleep again.
LoopTest(isRunning, pc) == IF isRunning THEN pc ELSE "done"


\* ------------------------------------------------------- query strings
\* A string is the sequence of its pieces: a word fragment, a blank, '#',
\* or a run of digits (kept as its number).  A word that holds another
\* word of the vocabulary is cut at that word ("orders" = "order" + "s"),
\* so that `x in y` is: x is a contiguous run of the pieces of y.
W(s) == [k |-> "w", s |-> s, n |-> 0]
Blank == [k |-> "blank", s |-> " ", n |-> 0]
Hash == [k |-> "punct", s |-> "#", n |-> 0]
Num(n) == [k |-> "digits", s |-> "", n |-> n]

Frag(w) ==
    CASE w = "orders" -> <<W("order"), W("s")>>
      [] w = "permits" -> <<W("permit"), W("s")>>
      [] w = "states" -> <<W("state"), W("s")>>
      [] w = "provisions" -> <<W("provision"), W("s")>>
      [] w = "provisional" -> <<W("provision"), W("al")>>
      [] w = "information" -> <<W("info"), W("rmation")>>
      [] OTHER -> <<W(w)>>

\* The words of ws separated by one blank.
RECURSIVE Phrase(_)
Phrase(ws) ==
    IF Len(ws) = 0 THEN <<>>
    ELSE IF Len(ws) = 1 THEN Frag(ws[1])
    ELSE Frag(ws[1]) \o <<Blank>> \o Phrase(Tail(ws))

\* `p in q` of Python on strings.
Contains(q, p) ==
    \E i \in 0..(Len(q) - Len(p)) :
        \A j \in 1..Len(p) : q[i + j] = p[j]

\* any(kw in q for kw in kws)
ContainsAny(q, kws) == \E kw \in kws : Contains(q, kw)

\* str.lower() on the words of a query.
LowerWord(s) ==
    CASE s = "Latest" -> "latest"
      [] s = "Provision" -> "provision"
      [] s = "Permit" -> "permit"
      [] s = "Order" -> "order"
      [] OTHER -> s

LowerQuery(q) == [i \in DOMAIN q |-> [q[i] EXCEPT !.s = LowerWord(@)]]

\* A text the program builds: the format and what is filled in: an order
\* id, a position (the row of POSITION_MAPPINGS for {position_text}, the
\* index that POSITION_DESCRIPTIONS describes for {desc}, the number for
\* {ordinal}), the kind of user.
Text(fmt, oid, pos, who) == [fmt |-> fmt, oid |-> oid, pos |-> pos, who |-> who]
Plain(fmt) == Text(fmt, 0, 0, "")
Empty == Plain("")

ORDER_SWITCH_KEYWORDS ==
    {Phrase(<<"switch", "to", "orders">>), Phrase(<<"go", "to", "orders">>),
     Phrase(<<"go", "back", "to", "orders">>),
     Phrase(<<"go", "back", "orders">>), Phrase(<<"go", "back", "order">>),
     Phrase(<<"check", "orders">>), Phrase(<<"talk", "about", "orders">>),
     Phrase(<<"discuss", "orders">>),
     Phrase(<<"discuss", "about", "orders">>), Phrase(<<"order", "system">>),
     Phrase(<<"order", "management">>), Phrase(<<"orders", "management">>),
     Phrase(<<"orders", "updates">>), Phrase(<<"order", "list">>),
     Phrase(<<"orders", "list">>), Phrase(<<"orders", "overview">>),
     Phrase(<<"orders", "report">>), Phrase(<<"orders", "data">>),
     Phrase(<<"orders", "query">>), Phrase(<<"orders", "search">>),
     Phrase(<<"order", "inquiry">>), Phrase(<<"orders", "inquiry">>),
     Phrase(<<"order", "menu">>), Phrase(<<"orders", "menu">>),
     Phrase(<<"order", "section">>), Phrase(<<"orders", "section">>),
     Phrase(<<"order", "dashboard">>), Phrase(<<"orders", "dashboard">>),
     Phrase(<<"order", "portal">>), Phrase(<<"orders", "portal">>),
     Phrase(<<"order", "screen">>), Phrase(<<"orders", "screen">>),
     Phrase(<<"order", "page">>), Phrase(<<"orders", "page">>),
     Phrase(<<"order", "tab">>), Phrase(<<"orders", "tab">>),
     Phrase(<<"order", "module">>), Phrase(<<"orders", "module">>),
     Phrase(<<"order", "interface">>), Phrase(<<"orders", "interface">>),
     Phrase(<<"order", "platform">>), Phrase(<<"orders", "platform">>),
     Phrase(<<"show", "orders">>), Phrase(<<"view", "orders">>),
     Phrase(<<"return", "to", "orders">>)}

PERMIT_SWITCH_KEYWORDS ==
    {Phrase(<<"switch", "to", "permit">>),
     Phrase(<<"switch", "to", "permits">>), Phrase(<<"go", "to", "permit">>),
     Phrase(<<"go", "to", "permits">>),
     Phrase(<<"go", "back", "to", "permit">>),
     Phrase(<<"go", "back", "to", "permits">>),
     Phrase(<<"go", "back", "permit">>), Phrase(<<"go", "back", "permits">>),
     Phrase(<<"open", "permit">>), Phrase(<<"open", "permits">>),
     Phrase(<<"see", "permit">>), Phrase(<<"see", "permits">>),
     Phrase(<<"show", "permit">>), Phrase(<<"show", "permits">>),
     Phrase(<<"view", "permit">>), Phrase(<<"view", "permits">>),
     Phrase(<<"check", "permit">>), Phrase(<<"check", "permits">>),
     Phrase(<<"talk", "about", "permit">>),
     Phrase(<<"talk", "about", "permits">>), Phrase(<<"discuss", "permit">>),
     Phrase(<<"discuss", "permits">>),
     Phrase(<<"discuss", "about", "permit">>),
     Phrase(<<"discuss", "about", "permits">>),
     Phrase(<<"permit", "system">>), Phrase(<<"permits", "system">>),
     Phrase(<<"permit", "management">>), Phrase(<<"permits", "management">>),
     Phrase(<<"permit", "updates">>), Phrase(<<"permits", "updates">>),
     Phrase(<<"permit", "list">>), Phrase(<<"permits", "list">>),
     Phrase(<<"permit", "overview">>), Phrase(<<"permits", "overview">>),
     Phrase(<<"permit", "report">>), Phrase(<<"permits", "report">>),
     Phrase(<<"permit", "data">>), Phrase(<<"permits", "data">>),
     Phrase(<<"permit", "query">>), Phrase(<<"permits", "query">>),
     Phrase(<<"permit", "search">>), Phrase(<<"permits", "search">>),
     Phrase(<<"permit", "inquiry">>), Phrase(<<"permits", "inquiry">>),
     Phrase(<<"permit", "menu">>), Phrase(<<"permits", "menu">>),
     Phrase(<<"permit", "section">>), Phrase(<<"permits", "section">>),
     Phrase(<<"permit", "dashboard">>), Phrase(<<"permits", "dashboard">>),
     Phrase(<<"permit", "portal">>), Phrase(<<"permits", "portal">>),
     Phrase(<<"permit", "screen">>), Phrase(<<"permits", "screen">>),
     Phrase(<<"permit", "page">>), Phrase(<<"permits", "page">>),
     Phrase(<<"permit", "tab">>), Phrase(<<"permits", "tab">>),
     Phrase(<<"permit", "module">>), Phrase(<<"permits", "module">>),
     Phrase(<<"permit", "interface">>), Phrase(<<"permits", "interface">>),
     Phrase(<<"permit", "platform">>), Phrase(<<"permits", "platform">>)}

PROVISION_KEYWORDS ==
    {Phrase(<<"provision">>), Phrase(<<"state", "provision">>),
     Phrase(<<"provision", "file">>), Phrase(<<"provisional">>),
     Phrase(<<"state", "provisional", "file">>),
     Phrase(<<"provisional", "file">>), Phrase(<<"provisions">>),
     Phrase(<<"state", "info">>), Phrase(<<"state", "information">>),
     Phrase(<<"state", "data">>), Phrase(<<"state", "details">>),
     Phrase(<<"provision", "info">>), Phrase(<<"provision", "information">>),
     Phrase(<<"switch", "to", "states">>)}

POSITION_MAPPINGS ==
    <<[text |-> Phrase(<<"third", "last">>), index |-> 2],
      [text |-> Phrase(<<"third", "latest">>), index |-> 2],
      [text |-> Phrase(<<"second", "last">>), index |-> 1],
      [text |-> Phrase(<<"second", "latest">>), index |-> 1],
      [text |-> Phrase(<<"fourth", "last">>), index |-> 3],
      [text |-> Phrase(<<"fourth", "latest">>), index |-> 3],
      [text |-> Phrase(<<"fifth", "last">>), index |-> 4],
      [text |-> Phrase(<<"fifth", "latest">>), index |-> 4],
      [text |-> Phrase(<<"sixth", "last">>), index |-> 5],
      [text |-> Phrase(<<"sixth", "latest">>), index |-> 5],
      [text |-> Phrase(<<"seventh", "last">>), index |-> 6],
      [text |-> Phrase(<<"seventh", "latest">>), index |-> 6],
      [text |-> Phrase(<<"eighth", "last">>), index |-> 7],
      [text |-> Phrase(<<"eighth", "latest">>), index |-> 7],
      [text |-> Phrase(<<"ninth", "last">>), index |-> 8],
      [text |-> Phrase(<<"ninth", "latest">>), index |-> 8],
      [text |-> Phrase(<<"tenth", "last">>), index |-> 9],
      [text |-> Phrase(<<"tenth", "latest">>), index |-> 9],
      [text |-> Phrase(<<"latest">>), index |-> 0],
      [text |-> Phrase(<<"last">>), index |-> 0],
      [text |-> Phrase(<<"newest">>), index |-> 0],
      [text |-> Phrase(<<"second">>), index |-> 1],
      [text |-> Phrase(<<"third">>), index |-> 2],
      [text |-> Phrase(<<"fourth">>), index |-> 3],
      [text |-> Phrase(<<"fifth">>), index |-> 4],
      [text |-> Phrase(<<"sixth">>), index |-> 5],
      [text |-> Phrase(<<"seventh">>), index |-> 6],
      [text |-> Phrase(<<"eighth">>), index |-> 7],
      [text |-> Phrase(<<"ninth">>), index |-> 8],
      [text |-> Phrase(<<"tenth">>), index |-> 9]>>

\* -------------------------------------------------- order resolution
\* \d{4,}: a run of at least MinIdDigits digits.
MinIdDigits == 4
MinOf(S) == CHOOSE x \in S : \A y \in S : x <= y

RECURSIVE Digits(_)
Digits(n) == IF n < 10 THEN 1 ELSE 1 + Digits(n \div 10)

IsId(t) == t.k = "digits" /\ Digits(t.n) >= MinIdDigits

\* \b before piece i and after piece j of q: no word character on the
\* other side.
WordChar(t) == t.k \in {"w", "digits"}
BoundaryBefore(q, i) == i = 1 \/ ~WordChar(q[i - 1])
BoundaryAfter(q, j) == j = Len(q) \/ ~WordChar(q[j + 1])

\* The number of blanks that start at piece i (\s+ needs one at least).
RECURSIVE Blanks(_, _)
Blanks(q, i) ==
    IF i <= Len(q) /\ q[i].k = "blank" THEN 1 + Blanks(q, i + 1) ELSE 0

\* Where #?(\d{4,}) matches when tried at piece i: the position of the
\* digits, 0 when it does not match.
HashId(q, i) ==
    IF i <= Len(q) /\ IsId(q[i]) THEN i
    ELSE IF i + 1 <= Len(q) /\ q[i] = Hash /\ IsId(q[i + 1]) THEN i + 1
    ELSE 0

\* The positions of the digits of every match of one of the four patterns
\* of get_admin_order_id, by the piece where the match starts.
PatternMatch(pattern, q, i) ==
    CASE pattern = 1 ->           \* order\s+#?(\d{4,})
           IF q[i] = W("order") /\ Blanks(q, i + 1) >= 1
           THEN HashId(q, i + 1 + Blanks(q, i + 1)) ELSE 0
      [] pattern = 2 ->           \* #(\d{4,})
           IF q[i] = Hash /\ i + 1 <= Len(q) /\ IsId(q[i + 1])
           THEN i + 1 ELSE 0
      [] pattern = 3 ->           \* \b(\d{4,})\b
           IF IsId(q[i]) /\ BoundaryBefore(q, i) /\ BoundaryAfter(q, i)
           THEN i ELSE 0
      [] pattern = 4 ->           \* (?:about|for|id)\s+#?(\d{4,})
           IF q[i] \in {W("about"), W("for"), W("id")}
              /\ Blanks(q, i + 1) >= 1
           THEN HashId(q, i + 1 + Blanks(q, i + 1)) ELSE 0

\* re.search(pattern, q): the leftmost match, as the option of the id.
Search(pattern, q) ==
    LET starts == {i \in DOMAIN q : PatternMatch(pattern, q, i) # 0}
    IN IF starts = {} THEN None
       ELSE Some(q[PatternMatch(pattern, q, MinOf(starts))].n)

\* The loop of get_admin_order_id over its patterns from pattern p on: the
\* id of the first pattern whose leftmost match is an order of the store;
\* find_one raising ends the loop with None.
NumPatterns == 4
RECURSIVE PatternLoop(_, _, _, _)
PatternLoop(p, q, store, dbUp) ==
    IF p > NumPatterns THEN None
    ELSE LET m == Search(p, q)
         IN IF IsNone(m) THEN PatternLoop(p + 1, q, store, dbUp)
            ELSE IF ~dbUp THEN None
            ELSE IF Val(m) \in store THEN m
            ELSE PatternLoop(p + 1, q, store, dbUp)

\* get_admin_order_id without the test of find_one.
GetAdminOrderId_NoLookup(query, store, dbUp) ==
    LET q == LowerQuery(query)
        found == {p \in 1..NumPatterns : ~IsNone(Search(p, q))}
    IN IF found = {} THEN None ELSE Search(MinOf(found), q)

GetAdminOrderId(query, store, dbUp) ==
    PatternLoop(1, LowerQuery(query), store, dbUp)

\* The result (should_switch, order_ids, explanation) of the resolver.
Resolved(switch, ids, why) == [switch |-> switch, ids |-> ids, why |-> why]

\* sorted(order_ids, reverse=True)
RECURSIVE SortDesc(_)
SortDesc(S) ==
    IF S = {} THEN <<>>
    ELSE LET m == CHOOSE x \in S : \A y \in S : y <= x
         IN <<m>> \o SortDesc(S \ {m})

\* The loop over POSITION_MAPPINGS going on to the next rows, and to the
\* later steps, when the index of a row is out of bounds.
RECURSIVE PositionLoop_NoStop(_, _, _, _)
PositionLoop_NoStop(r, q, ids, who) ==
    IF r > Len(POSITION_MAPPINGS) THEN None
    ELSE IF Contains(q, POSITION_MAPPINGS[r].text)
            /\ POSITION_MAPPINGS[r].index < Len(ids)
    THEN LET index == POSITION_MAPPINGS[r].index
         IN Some(Resolved(TRUE, <<ids[index + 1]>>,
                          Text("Using {desc} order ({oid}) for {user_type}",
                               ids[index + 1], index, who)))
    ELSE PositionLoop_NoStop(r + 1, q, ids, who)

\* The loop over POSITION_MAPPINGS from row r on: the first row whose text
\* is in the query decides.  None when no row matches.
RECURSIVE PositionLoop(_, _, _, _)
PositionLoop(r, q, ids, who) ==
    IF r > Len(POSITION_MAPPINGS) THEN None
    ELSE IF Contains(q, POSITION_MAPPINGS[r].text)
    THEN LET index == POSITION_MAPPINGS[r].index
         IN IF index < Len(ids)
            THEN Some(Resolved(TRUE, <<ids[index + 1]>>,
                               Text("Using {desc} order ({oid}) for {user_type}",
                                    ids[index + 1], index,
                                    who)))
            ELSE Some(Resolved(FALSE, <<>>,
                               Text("No {position_text} order available for {user_type}",
                                    0, r, who)))
    ELSE PositionLoop(r + 1, q, ids, who)

\* The leftmost match of (\d+)(?:st|nd|rd|th)\s+latest: the number, or None.
OrdinalSuffixes == {W("st"), W("nd"), W("rd"), W("th")}
OrdinalMatch(q) ==
    LET starts == {i \in DOMAIN q :
                     /\ q[i].k = "digits"
                     /\ i + 1 <= Len(q) /\ q[i + 1] \in OrdinalSuffixes
                     /\ Blanks(q, i + 2) >= 1
                     /\ i + 2 + Blanks(q, i + 2) <= Len(q)
                     /\ q[i + 2 + Blanks(q, i + 2)] = W("latest")}
    IN IF starts = {} THEN None ELSE Some(q[MinOf(starts)].n)

\* order_ids[index] of Python: a negative index counts from the end.
PyIndex(ids, index) == IF index >= 0 THEN ids[index + 1]
                       ELSE ids[Len(ids) + index + 1]

\* re.findall(r"\b\d+\b", query): the numbers of the query, left to right.
BareNumbers(q) ==
    LET at == {i \in DOMAIN q : /\ q[i].k = "digits"
                                /\ BoundaryBefore(q, i)
                                /\ BoundaryAfter(q, i)}
    IN [j \in 1..Cardinality(at) |->
          q[CHOOSE i \in at : Cardinality({x \in at : x < i}) = j - 1].n]

\* order_ids.index(oid), from 0.
IndexOf(ids, oid) == (CHOOSE i \in DOMAIN ids : ids[i] = oid) - 1

ErrorInProcessing == Resolved(FALSE, <<>>, Plain("Error in processing"))

\* Steps c to f with the current order preferred to a number of the query.
NumberOrCurrent_CurrentFirst(nums, current, ids, who) ==
    LET hits == {j \in DOMAIN nums :
                    \E i \in DOMAIN ids : ids[i] = nums[j]}
    IN IF ~IsNone(current)
       THEN Resolved(FALSE, <<Val(current)>>,
                     Text("Continuing with current order {oid} for {user_type}",
                          Val(current), 0, who))
       ELSE IF hits # {}
       THEN LET oid == nums[MinOf(hits)]
            IN Resolved(TRUE, <<oid>>,
                        Text("Using order {oid} ({desc} order) for {user_type}",
                             oid, IndexOf(ids, oid), who))
       ELSE IF Len(ids) > 0
       THEN Resolved(TRUE, <<ids[1]>>,
                     Text("Using latest order {oid} for {user_type}",
                          ids[1], 0, who))
       ELSE Resolved(FALSE, <<>>,
                     Text("No orders found for {user_type}", 0, 0, who))

\* resolve_order_context, lines 131-160: the first number of the query
\* that is an order of the user, else the current order, else the latest
\* order, else nothing.
NumberOrCurrent(nums, current, ids, who) ==
    LET hits == {j \in DOMAIN nums :
                    \E i \in DOMAIN ids : ids[i] = nums[j]}
    IN IF hits # {}
       THEN LET oid == nums[MinOf(hits)]
            IN Resolved(TRUE, <<oid>>,
                        Text("Using order {oid} ({desc} order) for {user_type}",
                             oid, IndexOf(ids, oid), who))
       ELSE IF ~IsNone(current)
       THEN Resolved(FALSE, <<Val(current)>>,
                     Text("Continuing with current order {oid} for {user_type}",
                          Val(current), 0, who))
       ELSE IF Len(ids) > 0
       THEN Resolved(TRUE, <<ids[1]>>,
                     Text("Using latest order {oid} for {user_type}",
                          ids[1], 0, who))
       ELSE Resolved(FALSE, <<>>,
                     Text("No orders found for {user_type}", 0, 0, who))

\* The driver/client branch after the position loop taking the first
\* number of the query as the order, whether the user holds it or not.
AfterPositions_AnyNumber(query, q, current, ids, who) ==
    LET nums == BareNumbers(query)
    IN IF Len(nums) > 0
       THEN Resolved(TRUE, <<nums[1]>>,
                     Text("Using order {oid} ({desc} order) for {user_type}",
                          nums[1], 0, who))
       ELSE NumberOrCurrent(nums, current, ids, who)

\* The driver/client branch of resolve_order_context after the position
\* loop found no row: the ordinal pattern, then the steps above.
AfterPositions(query, q, current, ids, who) ==
    LET ord == OrdinalMatch(q)
    IN IF ~IsNone(ord)
       THEN LET index == Val(ord) - 1
            IN IF index < Len(ids)
               THEN IF Len(ids) = 0 THEN ErrorInProcessing
                    ELSE Resolved(TRUE, <<PyIndex(ids, index)>>,
                                  Text("Using {ordinal} order ({oid}) for {user_type}",
                                       PyIndex(ids, index), Val(ord), who))
               ELSE Resolved(FALSE, <<>>,
                             Text("No {ordinal} order available for {user_type}",
                                  0, Val(ord), who))
       ELSE NumberOrCurrent(BareNumbers(query), current, ids, who)

\* resolve_order_context.  role: the key of user_data ("admin" for
\* admin_info, and so on); order_ids: the order_ids of the user; store: the
\* ids of the orders collection; dbUp: whether find_one answers.
ResolveOrderContext(query, current, role, order_ids, store, dbUp) ==
    IF role = "admin"
    THEN LET order_id == GetAdminOrderId(query, store, dbUp)
         IN IF ~IsNone(order_id) /\ Val(order_id) # 0
            THEN Resolved(TRUE, <<Val(order_id)>>,
                          Text("Accessing order {oid} as admin",
                               Val(order_id), 0, ""))
            ELSE IF ~IsNone(current) /\ Val(current) # 0
            THEN Resolved(FALSE, <<Val(current)>>,
                          Text("Continuing with current order {oid}",
                               Val(current), 0, ""))
            ELSE Resolved(FALSE, <<>>, Plain("Please specify an order ID"))
    ELSE IF role \notin {"driver", "client"}
    THEN Resolved(FALSE, <<>>, Plain("Invalid user data"))
    ELSE LET q == LowerQuery(query)
             ids == SortDesc(order_ids)
             pos == PositionLoop(1, q, ids, role)
         IN IF ~IsNone(pos) THEN Val(pos)
            ELSE AfterPositions(query, q, current, ids, role)


\* -------------------------------------------------------- order cache
\* The OrderCache as one record, threaded through a query: id
\* current_order_id, details current_details, why explanation, files the
\* orders with a cache file.  The details of orders are kept as the list of
\* their ids.
OrderCacheState ==
    [id |-> current_order_id, details |-> current_details,
     why |-> explanation, files |-> cache_files]

OrderCacheInit ==
    /\ current_order_id = None
    /\ current_details = None
    /\ explanation = None
    /\ cache_files = {}

SetOrderCache(c) ==
    /\ current_order_id' = c.id
    /\ current_details' = c.details
    /\ explanation' = c.why
    /\ cache_files' = c.files

\* OrderCache.save: the file is written unless the write fails.
Save(c, order_id, diskOk) ==
    IF diskOk THEN [c EXCEPT !.files = @ \cup {order_id}] ELSE c

\* OrderCache.load: the cached details, None without a readable file.
Load(c, order_id, diskOk) ==
    IF diskOk /\ order_id \in c.files THEN Some(<<order_id>>) ELSE None

\* OrderCache.set_current_order
SetCurrentOrder(c, order_id, order_details, why, diskOk) ==
    Save([c EXCEPT !.id = Some(order_id), !.details = Some(order_details),
                   !.why = Some(why)],
         order_id, diskOk)

\* order_service.get_order_details: the documents of the store among
\* order_ids; [] when the query raises.
GetOrderDetails(order_ids, store, dbUp) ==
    IF dbUp THEN SelectSeq(order_ids, LAMBDA o : o \in store) ELSE <<>>

\* What a query meets: whether get_user_info finds the user, the order_ids
\* of the user, the ids of the orders collection, whether the database
\* answers to the resolver (dbFind) and to the later fetch of the
\* subsystem (dbFetch), whether the cache files can be read and written,
\* whether the LLM answers.
Env(userOk, order_ids, store, dbFind, dbFetch, diskOk, llmUp) ==
    [userOk |-> userOk, order_ids |-> order_ids, store |-> store,
     dbFind |-> dbFind, dbFetch |-> dbFetch, diskOk |-> diskOk,
     llmUp |-> llmUp]

\* generate_response, lines 67-88, with the current order assigned before
\* the details are fetched.
SwitchOrder_EagerId(c, res, env) ==
    IF (res.switch \/ IsNone(c.id)) /\ res.ids # <<>>
    THEN LET new_order_id == res.ids[1]
             cached == Load(c, new_order_id, env.diskOk)
             c0 == [c EXCEPT !.id = Some(new_order_id)]
             order_details == GetOrderDetails(res.ids, env.store, env.dbFetch)
         IN IF ~IsNone(cached)
            THEN [c |-> [c0 EXCEPT !.details = cached, !.why = Some(res.why)],
                  fetch |-> "cached"]
            ELSE IF order_details # <<>>
            THEN [c |-> SetCurrentOrder(c0, new_order_id, order_details,
                                        res.why, env.diskOk),
                  fetch |-> "fetched"]
            ELSE [c |-> c0, fetch |-> "failed"]
    ELSE [c |-> c, fetch |-> "none"]

\* generate_response, lines 67-88: the order the resolver chose becomes the
\* current one once its details were loaded from the cache or fetched.
SwitchOrder(c, res, env) ==
    IF (res.switch \/ IsNone(c.id)) /\ res.ids # <<>>
    THEN LET new_order_id == res.ids[1]
             cached == Load(c, new_order_id, env.diskOk)
             order_details == GetOrderDetails(res.ids, env.store, env.dbFetch)
         IN IF ~IsNone(cached)
            THEN [c |-> [c EXCEPT !.id = Some(new_order_id),
                                  !.details = cached, !.why = Some(res.why)],
                  fetch |-> "cached"]
            ELSE IF order_details # <<>>
            THEN [c |-> SetCurrentOrder(c, new_order_id, order_details,
                                        res.why, env.diskOk),
                  fetch |-> "fetched"]
            ELSE [c |-> c, fetch |-> "failed"]
    ELSE [c |-> c, fetch |-> "none"]

\* What a query yields: the cache, the text returned, the system, the
\* route taken, whether an exception left the function, the result of the
\* resolver when it ran, how the details were obtained.
Outcome(c, response, system, route, raised, resolved, res, fetch) ==
    [c |-> c, response |-> response, system |-> system, route |-> route,
     raised |-> raised, resolved |-> resolved, res |-> res, fetch |-> fetch]

NoRes == Resolved(FALSE, <<>>, Empty)

\* generate_response
GenerateResponse(c, query, role, env) ==
    IF role # "admin" /\ ~env.userOk
    THEN Outcome(c, Plain("{user_data[error]}"), "orders", "order_query",
                 FALSE, FALSE, NoRes, "none")
    ELSE LET res == ResolveOrderContext(query, c.id, role, env.order_ids,
                                        env.store, env.dbFind)
             sw == SwitchOrder(c, res, env)
         IN IF sw.fetch = "failed"
            THEN Outcome(sw.c,
                         Plain("Sorry, couldn't fetch order details from the database."),
                         "orders", "order_query", FALSE, TRUE, res, sw.fetch)
            ELSE IF IsNone(sw.c.details) \/ Val(sw.c.details) = <<>>
            THEN Outcome(sw.c,
                         Plain("Sorry, no order details are currently available."),
                         "orders", "order_query", FALSE, TRUE, res, sw.fetch)
            ELSE IF ~env.llmUp
            THEN Outcome(sw.c,
                         Plain("Sorry, I encountered an error while processing your request."),
                         "orders", "order_query", FALSE, TRUE, res, sw.fetch)
            ELSE Outcome(sw.c, Empty, "orders", "order_query", FALSE, TRUE,
                         res, sw.fetch)

\* The names of constants.STATES, lower-cased as find_state_in_query
\* compares them.
STATES ==
    <<Phrase(<<"alabama">>), Phrase(<<"alaska">>), Phrase(<<"alberta">>),
      Phrase(<<"arizona">>), Phrase(<<"arkansas">>),
      Phrase(<<"british", "columbia">>), Phrase(<<"california">>),
      Phrase(<<"colorado">>), Phrase(<<"connecticut">>),
      Phrase(<<"delaware">>), Phrase(<<"florida">>), Phrase(<<"georgia">>),
      Phrase(<<"hawaii">>), Phrase(<<"idaho">>), Phrase(<<"illinois">>),
      Phrase(<<"indiana">>), Phrase(<<"iowa">>), Phrase(<<"kansas">>),
      Phrase(<<"kentucky">>), Phrase(<<"louisiana">>), Phrase(<<"maine">>),
      Phrase(<<"manitoba">>), Phrase(<<"maryland">>),
      Phrase(<<"massachusetts">>), Phrase(<<"michigan">>),
      Phrase(<<"minnesota">>), Phrase(<<"mississippi">>),
      Phrase(<<"missouri">>), Phrase(<<"montana">>), Phrase(<<"nebraska">>),
      Phrase(<<"nevada">>), Phrase(<<"new", "brunswick">>),
      Phrase(<<"new", "hampshire">>), Phrase(<<"new", "jersey">>),
      Phrase(<<"new", "mexico">>), Phrase(<<"new", "york">>),
      Phrase(<<"newfoundland", "and", "labrador">>),
      Phrase(<<"north", "carolina">>), Phrase(<<"north", "dakota">>),
      Phrase(<<"nova", "scotia">>), Phrase(<<"ohio">>),
      Phrase(<<"oklahoma">>), Phrase(<<"ontario">>), Phrase(<<"oregon">>),
      Phrase(<<"pennsylvania">>), Phrase(<<"prince", "edward", "island">>),
      Phrase(<<"quebec">>), Phrase(<<"rhode", "island">>),
      Phrase(<<"saskatchewan">>), Phrase(<<"south", "carolina">>),
      Phrase(<<"south", "dakota">>), Phrase(<<"tennessee">>),
      Phrase(<<"texas">>), Phrase(<<"utah">>), Phrase(<<"vermont">>),
      Phrase(<<"virginia">>), Phrase(<<"washington">>),
      Phrase(<<"west", "virginia">>), Phrase(<<"wisconsin">>),
      Phrase(<<"wyoming">>)>>

\* state_service.find_state_in_query: whether a state is named.
FindStateInQuery(q) == \E i \in DOMAIN STATES : Contains(q, STATES[i])

\* state_service.get_state_info for the query handed over, up to the end
\* of its first answer (the questions it then listens for are not
\* followed): whether an exception leaves it, and the system it returns.
GetStateInfo(query, env) ==
    LET q == LowerQuery(query)
    IN IF q \in {Phrase(<<"quit">>), Phrase(<<"exit">>), Phrase(<<"none">>)}
       THEN [raised |-> FALSE, system |-> "states"]
       ELSE IF ContainsAny(q, ORDER_SWITCH_KEYWORDS)
       THEN [raised |-> FALSE, system |-> "orders"]
       ELSE IF ContainsAny(q, PERMIT_SWITCH_KEYWORDS)
       THEN [raised |-> FALSE, system |-> "permits"]
       ELSE IF ~FindStateInQuery(q)
       THEN [raised |-> FALSE, system |-> "states"]
       ELSE IF ~env.dbFetch
       THEN [raised |-> TRUE, system |-> ""]
       ELSE [raised |-> FALSE, system |-> "states"]

\* permit_service.chat_with_permit_info up to the end of its first answer:
\* its loop runs inside a try, whose handler returns "orders".
ChatWithPermitInfo(order_id, env) ==
    IF env.dbFetch THEN [raised |-> FALSE, system |-> "permits"]
    ELSE [raised |-> FALSE, system |-> "orders"]

\* The tests of handle_query with the permit keywords tried first.
Route_PermitFirst(q) ==
    IF ContainsAny(q, PERMIT_SWITCH_KEYWORDS) THEN "permits"
    ELSE IF ContainsAny(q, PROVISION_KEYWORDS) THEN "states"
    ELSE IF ContainsAny(q, ORDER_SWITCH_KEYWORDS) THEN "orders"
    ELSE "order_query"

\* The tests of handle_query on the lower-cased query, in their order.
Route(q) ==
    IF ContainsAny(q, PROVISION_KEYWORDS) THEN "states"
    ELSE IF ContainsAny(q, PERMIT_SWITCH_KEYWORDS) THEN "permits"
    ELSE IF ContainsAny(q, ORDER_SWITCH_KEYWORDS) THEN "orders"
    ELSE "order_query"

\* handle_query
HandleQuery(c, query, role, env) ==
    LET route == Route(LowerQuery(query))
    IN CASE route = "states" ->
              LET r == GetStateInfo(query, env)
              IN Outcome(c, Empty, r.system, "states", r.raised, FALSE,
                         NoRes, "none")
         [] route = "permits" ->
              IF ~IsNone(c.id) /\ Val(c.id) # 0
              THEN LET r == ChatWithPermitInfo(Val(c.id), env)
                   IN Outcome(c, Empty, r.system, "permits", r.raised, FALSE,
                              NoRes, "none")
              ELSE Outcome(c, Empty, "orders", "select_order", FALSE, FALSE,
                           NoRes, "none")
         [] route = "orders" ->
              Outcome(c, Empty, "orders", "orders", FALSE, FALSE, NoRes,
                      "none")
         [] OTHER -> GenerateResponse(c, query, role, env)

\* The observation of a query: the query, the current order before it, the
\* sorted order ids of the user, the orders collection and whether it
\* answered to the resolver, and the outcome.
Reply(op, q, cur, ids, store, dbFind, o) ==
    [op |-> op, q |-> q, cur |-> cur, ids |-> ids, store |-> store,
     dbFind |-> dbFind, response |-> o.response,
     system |-> o.system, route |-> o.route, raised |-> o.raised,
     resolved |-> o.resolved, res |-> o.res, fetch |-> o.fetch]

NoReply ==
    Reply("init", <<>>, None, <<>>, {}, TRUE,
          Outcome(<<>>, Empty, "", "", FALSE, FALSE, NoRes, "none"))

\* ----------------------------------------------------------- settings
\* AppSettings as far as the credentials go: whether MONGO_URI and
\* GROQ_API_KEY are set to a non-empty string.
Settings(mongo_uri, groq_api_key) ==
    [mongo_uri |-> mongo_uri, groq_api_key |-> groq_api_key]

Configured == Settings(TRUE, TRUE)

\* AppSettings.validate: the list of errors.
Validate(st) ==
    (IF ~st.mongo_uri
     THEN <<"MONGO_URI environment variable is required">> ELSE <<>>)
    \o (IF ~st.groq_api_key
        THEN <<"GROQ_API_KEY environment variable is required">> ELSE <<>>)

\* user_service.verify_email: true for an admin; else whether the
\* collection of the role holds the email.  get_db() raises when the
\* client cannot be made from the URI or the server does not answer, and
\* the handler returns False.
VerifyEmail(role, st, dbUp, found) ==
    IF role = "admin" THEN TRUE
    ELSE IF ~st.mongo_uri \/ ~dbUp THEN FALSE
    ELSE found

\* -------------------------------------------------------- role filter
\* A JSON value: a scalar, a dict or a list.  e holds the entries
\* <<key, value>> of a dict and <<index, value>> of a list.
Scalar == [t |-> "scalar", e |-> {}]
Dict(entries) == [t |-> "dict", e |-> entries]
List(entries) == [t |-> "list", e |-> entries]

COMMON_EXCLUDED_FIELDS ==
    {"Company_attribute_Info", "state_webstie_detail", "transactions",
     "odOrderLogData", "meta"}

META_EXCLUDED_FIELDS ==
    {"permit_info", "meta_data", "truck_meta_data", "trailer_meta_data",
     "Company_meta_data", "client_meta_Data", "driver_meta_Data"}

ADMIN_EXCLUDED_FIELDS ==
    {"Company_attribute_Info", "state_webstie_detail", "odOrderLogData",
     "meta"}

\* data_filter._filter_recursive
RECURSIVE FilterRecursive(_, _, _)
FilterRecursive(data, excluded, meta_excluded) ==
    IF data.t = "dict"
    THEN Dict({<<p[1], FilterRecursive(p[2], excluded, meta_excluded)>> :
                 p \in {x \in data.e : /\ x[1] \notin excluded
                                       /\ x[1] \notin meta_excluded}})
    ELSE IF data.t = "list"
    THEN List({<<p[1], FilterRecursive(p[2], excluded, meta_excluded)>> :
                 p \in data.e})
    ELSE data

\* The outcome of a call: the value returned, or an exception raised.
Returned(v) == [raised |-> FALSE, value |-> v]
Raises == [raised |-> TRUE, value |-> Scalar]

\* data_filter.filter_order_by_role
FilterOrderByRole(order_data, role) ==
    IF role \in {"driver", "client"}
    THEN Returned(FilterRecursive(order_data, COMMON_EXCLUDED_FIELDS,
                                  META_EXCLUDED_FIELDS))
    ELSE IF role = "admin"
    THEN Returned(FilterRecursive(order_data, ADMIN_EXCLUDED_FIELDS,
                                  META_EXCLUDED_FIELDS))
    ELSE Raises

\* The observation of a call of filter_order_by_role.
Filtered(op, order_data, role, out) ==
    [op |-> op, order |-> order_data, role |-> role, raised |-> out.raised,
     value |-> out.value]

NoFilter == Filtered("init", Scalar, "", Returned(Scalar))

\* ------------------------------------------------------------ actions
\* The observation of a step: the operation, the task generation that took
\* it, whether it met no fault, whether the initial snapshot or the
\* new-order phase ran on a failed lookup of the order ids, the keys
\* _enqueue_alert rejected and those of them no alert of the queue had
\* when the step began, the identity of the alert handed to mark_delivered,
\* the database content an initial snapshot read, and the orders whose
\* status a cycle without fault found changed.
FullEvent(op, g, clean, idsfail, rejected, db, changed) ==
    [op |-> op, gen |-> g, clean |-> clean, idsfail |-> idsfail,
     rejected |-> rejected, uid |-> 0,
     purged |-> {k \in rejected :
                    \A i \in DOMAIN alert_queue :
                       AlertKey(alert_queue[i]) # k},
     db |-> db, changed |-> changed]

Event(op, g, clean, idsfail, rejected) ==
    FullEvent(op, g, clean, idsfail, rejected, EmptyDb, {})

\* The visible orders whose document holds a status other than the stored
\* one.
StatusChanged(db) ==
    {o \in db.uo : /\ ~IsNone(db.docs[o])
                   /\ ~IsNone(last_order_statuses[o])
                   /\ Val(last_order_statuses[o]) #
                          ExtractOrderStatus(Val(db.docs[o]))}

\* The monitor's fields after a step that left them as the record m.
SetMonitor(m) ==
    /\ m.uid <= MaxAlerts + 1
    /\ alert_queue' = m.q
    /\ delivered_keys' = m.keys
    /\ last_order_statuses' = m.los
    /\ last_order_ids' = m.loi
    /\ warned_permits' = m.wp
    /\ warned_deadlines' = m.wd
    /\ next_uid' = m.uid

\* The keys of m.att that did not reach the queue.
Rejected(m) == {k \in m.att : k \in m.keys}

\* The event loop runs the background tasks only while the main coroutine
\* is suspended.
LoopFree == main_pc \in {"await", "speak_alert"}

Init ==
    /\ running = FALSE
    /\ fast = [g \in Gens |-> NoTask]
    /\ weather = [g \in Gens |-> NoTask]
    /\ gen = 0
    /\ alert_queue = <<>>
    /\ delivered_keys = {}
    /\ last_order_statuses = [o \in OrderIds |-> None]
    /\ last_order_ids = {}
    /\ warned_permits = {}
    /\ warned_deadlines = {}
    /\ next_uid = 1
    /\ main_pc = "init"
    /\ summary = None
    /\ event = Event("init", 0, TRUE, FALSE, {})
    /\ user_role = "driver"
    /\ OrderCacheInit
    /\ reply = NoReply
    /\ settings = Configured
    /\ filtered = NoFilter

\* start() without the test of _running.
StartMonitor_NoGuard ==
    /\ gen < MaxStarts
    /\ running' = TRUE
    /\ gen' = gen + 1
    /\ fast' = [fast EXCEPT ![gen + 1] = NewTask]
    /\ weather' = [weather EXCEPT ![gen + 1] = NewTask]

\* ProactiveMonitor.start: nothing when already running, else both
\* tasks are created.
StartMonitor ==
    IF running
    THEN UNCHANGED taskVars
    ELSE /\ gen < MaxStarts
         /\ running' = TRUE
         /\ gen' = gen + 1
         /\ fast' = [fast EXCEPT ![gen + 1] = NewTask]
         /\ weather' = [weather EXCEPT ![gen + 1] = NewTask]

\* ProactiveMonitor.stop: the flag is cleared and the two tasks the monitor
\* holds are cancelled when they are not done.
StopMonitor ==
    /\ running' = FALSE
    /\ fast' = [g \in Gens |-> IF g = gen THEN Cancel(fast[g]) ELSE fast[g]]
    /\ weather' = [g \in Gens |->
                      IF g = gen THEN Cancel(weather[g]) ELSE weather[g]]
    /\ UNCHANGED gen

\* voice_app.initialize_user: the monitor is started, then the welcome is
\* spoken.
AppStart ==
    /\ main_pc = "init"
    /\ StartMonitor
    /\ main_pc' = "await"
    /\ event' = Event("start", gen, TRUE, FALSE, {})
    /\ UNCHANGED <<monVars, summary>>
    /\ UNCHANGED asstVars

\* start() called by any client of the monitor.
Start ==
    /\ main_pc = "run"
    /\ StartMonitor
    /\ event' = Event("start", gen, TRUE, FALSE, {})
    /\ UNCHANGED <<monVars, main_pc, summary>>
    /\ UNCHANGED asstVars

\* stop() called by any client of the monitor.
Stop ==
    /\ main_pc = "run"
    /\ StopMonitor
    /\ event' = Event("stop", gen, TRUE, FALSE, {})
    /\ UNCHANGED <<monVars, main_pc, summary>>
    /\ UNCHANGED asstVars

\* A step of a cancelled _monitor_loop task: CancelledError is thrown in.
FastCancelled(g) ==
    /\ LoopFree
    /\ ~Done(fast[g])
    /\ MustCancel(fast[g])
    /\ fast' = [fast EXCEPT ![g].pc = FastOnCancel(fast[g].pc),
                            ![g].thrown = TRUE]
    /\ event' = Event("cancelled", g, TRUE, FALSE, {})
    /\ UNCHANGED <<monVars, running, weather, gen, main_pc, summary>>
    /\ UNCHANGED asstVars

\* The first step of _monitor_loop: the initial snapshot, then the loop
\* test and the first sleep.  dbs, faults: what the database may hold and
\* the faults the snapshot may meet.
FastSnapshot(g, dbs, faults) ==
    /\ LoopFree
    /\ fast[g].pc = "created"
    /\ ~MustCancel(fast[g])
    /\ \E db \in dbs, f \in faults :
          \E m \in {TakeInitialSnapshot(MonitorState, db.uo, db.docs, f)} :
             /\ SetMonitor(m)
             /\ event' = FullEvent("snapshot", g, f = NoFault, f.ids, {},
                                   db, {})
    /\ fast' = [fast EXCEPT ![g].pc = LoopTest(running, "sleep_poll")]
    /\ UNCHANGED <<running, weather, gen, main_pc, summary>>
    /\ UNCHANGED asstVars

\* The faults of one cycle: the fault plan of each of the four phases, and
\* the number of steps (phases, then clear_old_alerts) completed when an
\* unexpected exception reaches the handler of the loop; 5 when none does.
CyclePlan(f1, f2, f3, f4, steps) ==
    [f |-> <<f1, f2, f3, f4>>, steps |-> steps]

CleanPlan == CyclePlan(NoFault, NoFault, NoFault, NoFault, 5)

\* Cycles in which a fault of `faults` occurs in one phase or in all of
\* them, and the cycle without fault.
FaultPlans(faults) ==
    {CleanPlan}
        \cup {CyclePlan(f, NoFault, NoFault, NoFault, 5) : f \in faults}
        \cup {CyclePlan(NoFault, f, NoFault, NoFault, 5) : f \in faults}
        \cup {CyclePlan(NoFault, NoFault, f, NoFault, 5) : f \in faults}
        \cup {CyclePlan(NoFault, NoFault, NoFault, f, 5) : f \in faults}
        \cup {CyclePlan(f, f, f, f, 5) : f \in faults}

\* Cycles that an unexpected exception ends after k steps.
CrashPlans ==
    {CyclePlan(NoFault, NoFault, NoFault, NoFault, k) : k \in 0..4}

\* The body of the try block of _monitor_loop after the sleep.
RunCycle(m, uo, docs, plan) ==
    LET m1 == IF plan.steps >= 1
              THEN CheckOrderStatusChanges(m, uo, docs, plan.f[1]) ELSE m
        m2 == IF plan.steps >= 2
              THEN CheckNewOrderAssignments(m1, uo, plan.f[2]) ELSE m1
        m3 == IF plan.steps >= 3
              THEN CheckPermitExpirations(m2, uo, docs, plan.f[3]) ELSE m2
        m4 == IF plan.steps >= 4
              THEN CheckDeliveryDeadlines(m3, uo, docs, plan.f[4]) ELSE m3
    IN IF plan.steps >= 5 THEN [m4 EXCEPT !.q = ClearOldAlerts(@)] ELSE m4

\* _monitor_loop waking from sleep(poll_interval): leave when not running,
\* else one detection cycle, then sleep again (or back off on an
\* unexpected exception).  dbs, plans: what the database may hold and the
\* faults the cycle may meet.
FastCycle(g, dbs, plans) ==
    /\ LoopFree
    /\ fast[g].pc = "sleep_poll"
    /\ ~MustCancel(fast[g])
    /\ IF ~running
       THEN /\ fast' = [fast EXCEPT ![g].pc = "done"]
            /\ event' = Event("other", 0, TRUE, FALSE, {})
            /\ UNCHANGED monVars
       ELSE \E db \in dbs, plan \in plans :
               \E m \in {RunCycle(MonitorState, db.uo, db.docs, plan)} :
                  /\ SetMonitor(m)
                  /\ event' = FullEvent("cycle", g, plan = CleanPlan,
                                        plan.steps >= 2 /\ plan.f[2].ids,
                                        Rejected(m), EmptyDb,
                                        IF plan = CleanPlan
                                        THEN StatusChanged(db) ELSE {})
                  /\ fast' = [fast EXCEPT ![g].pc =
                                 IF plan.steps < 5 THEN "sleep_backoff"
                                 ELSE LoopTest(running, "sleep_poll")]
    /\ UNCHANGED <<running, weather, gen, main_pc, summary>>
    /\ UNCHANGED asstVars

\* _monitor_loop waking from the sleep(10) of its exception handler.
FastBackoffWake(g) ==
    /\ LoopFree
    /\ fast[g].pc = "sleep_backoff"
    /\ ~MustCancel(fast[g])
    /\ fast' = [fast EXCEPT ![g].pc = LoopTest(running, "sleep_poll")]
    /\ event' = Event("other", 0, TRUE, FALSE, {})
    /\ UNCHANGED <<monVars, running, weather, gen, main_pc, summary>>
    /\ UNCHANGED asstVars


\* A step of a cancelled _weather_loop task.
WeatherCancelled(g) ==
    /\ LoopFree
    /\ ~Done(weather[g])
    /\ MustCancel(weather[g])
    /\ weather' = [weather EXCEPT ![g].pc = WeatherOnCancel(weather[g].pc),
                                  ![g].thrown = TRUE]
    /\ event' = Event("cancelled", g, TRUE, FALSE, {})
    /\ UNCHANGED <<monVars, running, fast, gen, main_pc, summary>>
    /\ UNCHANGED asstVars

\* The first step of _weather_loop, up to sleep(30).  The event loop runs
\* the tasks of one start() in the order of their creation, so the first
\* step of the _monitor_loop task comes first.
WeatherFirst(g) ==
    /\ LoopFree
    /\ weather[g].pc = "created"
    /\ ~MustCancel(weather[g])
    /\ fast[g].pc # "created"
    /\ weather' = [weather EXCEPT ![g].pc = "sleep_first"]
    /\ event' = Event("other", 0, TRUE, FALSE, {})
    /\ UNCHANGED <<monVars, running, fast, gen, main_pc, summary>>
    /\ UNCHANGED asstVars

\* _weather_loop waking from one of its sleeps: the loop test, then
\* _check_route_weather and the next sleep (or the back-off on an
\* unexpected exception, when crashes).
WeatherCycle(g, dbs, faults, crashes) ==
    /\ LoopFree
    /\ weather[g].pc \in {"sleep_first", "sleep_interval", "sleep_backoff"}
    /\ ~MustCancel(weather[g])
    /\ IF ~running
       THEN /\ weather' = [weather EXCEPT ![g].pc = "done"]
            /\ event' = Event("other", 0, TRUE, FALSE, {})
            /\ UNCHANGED monVars
       ELSE \/ /\ crashes
               /\ weather' = [weather EXCEPT ![g].pc = "sleep_backoff"]
               /\ event' = Event("weather", g, FALSE, FALSE, {})
               /\ UNCHANGED monVars
            \/ \E db \in dbs, f \in faults, severe \in SUBSET CityNames :
                  \E m \in {CheckRouteWeather(MonitorState, db.uo, db.docs,
                                              f, severe)} :
                     /\ SetMonitor(m)
                     /\ event' = Event("weather", g, f = NoFault, FALSE,
                                       Rejected(m))
                     /\ weather' = [weather EXCEPT ![g].pc = "sleep_interval"]
    /\ UNCHANGED <<running, fast, gen, main_pc, summary>>
    /\ UNCHANGED asstVars

\* voice_app._deliver_proactive_alerts up to its await of text_to_speech:
\* nothing pending (a forced call then speaks "no updates"), or the summary
\* is generated and spoken.
DeliverBegin ==
    /\ main_pc = "run"
    /\ \E force \in BOOLEAN, llm \in LlmOutcomes :
          LET s == IF HasAlerts(alert_queue)
                   THEN GenerateProactiveSummary(alert_queue, llm)
                   ELSE None
          IN /\ ~HasAlerts(alert_queue) => llm = "text"
             /\ summary' = s
             /\ main_pc' = IF ~IsNone(s) THEN "speak_alert"
                           ELSE IF force THEN "await" ELSE "run"
             /\ event' = Event("deliver", 0, TRUE, FALSE, {})
    /\ UNCHANGED <<monVars, taskVars>>
    /\ UNCHANGED asstVars

\* voice_app._deliver_proactive_alerts after the summary was spoken: every
\* alert get_pending_alerts returns now is marked delivered.
DeliverEnd ==
    /\ main_pc = "speak_alert"
    /\ LET m == MarkAll(MonitorState, GetPendingAlerts(alert_queue))
       IN SetMonitor(m)
    /\ main_pc' = "run"
    /\ summary' = None
    /\ event' = Event("other", 0, TRUE, FALSE, {})
    /\ UNCHANGED <<taskVars>>
    /\ UNCHANGED asstVars

\* Any other await of text_to_speech by the main coroutine (welcome,
\* greeting, answers): the main coroutine is suspended.
MainAwait ==
    /\ main_pc = "run"
    /\ main_pc' = "await"
    /\ event' = Event("other", 0, TRUE, FALSE, {})
    /\ UNCHANGED <<monVars, taskVars, summary>>
    /\ UNCHANGED asstVars

\* The awaited speech is over: the main coroutine goes on.
MainResume ==
    /\ main_pc = "await"
    /\ main_pc' = "run"
    /\ event' = Event("other", 0, TRUE, FALSE, {})
    /\ UNCHANGED <<monVars, taskVars, summary>>
    /\ UNCHANGED asstVars

\* voice_app.main: take_command returns "none" (nothing was heard) and the
\* loop continues.  take_command has no await that suspends: the
\* recogniser blocks the thread, so the event loop is never released.
Listen ==
    /\ main_pc = "run"
    /\ main_pc' = "run"
    /\ event' = Event("listen", 0, TRUE, FALSE, {})
    /\ UNCHANGED <<monVars, taskVars, summary>>
    /\ UNCHANGED asstVars

\* More than max_age_hours pass: every alert of the queue is now older
\* than the cutoff of clear_old_alerts.
Tick ==
    /\ \E i \in DOMAIN alert_queue : ~alert_queue[i].old
    /\ alert_queue' = [i \in DOMAIN alert_queue |->
                          [alert_queue[i] EXCEPT !.old = TRUE]]
    /\ event' = Event("other", 0, TRUE, FALSE, {})
    /\ UNCHANGED <<taskVars, delivered_keys, last_order_statuses,
                   last_order_ids, warned_permits, warned_deadlines,
                   next_uid, main_pc, summary>>
    /\ UNCHANGED asstVars

\* The session of the voice application from the start of the monitor to
\* the exit of the process: the lookup of the order ids may fail in any
\* phase; every phase catches what it raises.
Next ==
    \/ AppStart
    \/ \E g \in Gens : FastSnapshot(g, SessionDbs, {NoFault, IdsFault})
    \/ \E g \in Gens : FastCycle(g, SessionDbs, FaultPlans({IdsFault}))
    \/ \E g \in Gens : WeatherFirst(g)
    \/ \E g \in Gens :
          WeatherCycle(g, SessionDbs, {NoFault, IdsFault}, FALSE)
    \/ DeliverBegin
    \/ DeliverEnd
    \/ MainAwait
    \/ MainResume
    \/ Tick

Spec == Init /\ [][Next]_vars

\* The monitor driven by a client that calls start() and stop() in any
\* order.
InitLifecycle ==
    /\ running = FALSE
    /\ fast = [g \in Gens |-> NoTask]
    /\ weather = [g \in Gens |-> NoTask]
    /\ gen = 0
    /\ alert_queue = <<>>
    /\ delivered_keys = {}
    /\ last_order_statuses = [o \in OrderIds |-> None]
    /\ last_order_ids = {}
    /\ warned_permits = {}
    /\ warned_deadlines = {}
    /\ next_uid = 1
    /\ main_pc = "run"
    /\ summary = None
    /\ event = Event("init", 0, TRUE, FALSE, {})
    /\ user_role = "driver"
    /\ OrderCacheInit
    /\ reply = NoReply
    /\ settings = Configured
    /\ filtered = NoFilter

\* The lifecycle is followed over two contents of the database: one open
\* order; that order delivered and a second one with a rejected permit.
LifecycleDbs ==
    {[uo |-> {1},
      docs |-> [o \in OrderIds |-> IF o = 1 THEN Some(DocOpen) ELSE None]],
     [uo |-> {1, 2},
      docs |-> [o \in OrderIds |->
                   IF o = 1 THEN Some(DocDelivered)
                   ELSE IF o = 2 THEN Some(DocPermit) ELSE None]]}

\* A cycle of the lifecycle meets no fault or an unexpected exception at
\* its start.
LifecyclePlans == {CleanPlan} \cup {p \in CrashPlans : p.steps = 0}

NextLifecycle ==
    \/ Start
    \/ Stop
    \/ \E g \in Gens : FastCancelled(g)
    \/ \E g \in Gens : FastSnapshot(g, LifecycleDbs, {NoFault})
    \/ \E g \in Gens : FastCycle(g, LifecycleDbs, LifecyclePlans)
    \/ \E g \in Gens : FastBackoffWake(g)
    \/ \E g \in Gens : WeatherCancelled(g)
    \/ \E g \in Gens : WeatherFirst(g)
    \/ \E g \in Gens : WeatherCycle(g, LifecycleDbs, {NoFault}, TRUE)
    \/ MainAwait
    \/ MainResume

SpecLifecycle == InitLifecycle /\ [][NextLifecycle]_vars

\* The alert queue driven through its operations by any caller:
\* _enqueue_alert with the alerts the phases build for one order,
\* mark_delivered on any alert of the queue, clear_old_alerts, and time.
QueueAlerts ==
    {ProactiveAlert("order_status", HIGH, Title("Order status changed", 1, ""),
                    Message("order_status", 1, "open", "delivered", 0), 1),
     ProactiveAlert("order_status", HIGH, Title("Order status changed", 1, ""),
                    Message("order_status", 1, "delivered", "open", 0), 1),
     ProactiveAlert("new_order", MEDIUM, Title("New order assigned", 1, ""),
                    Message("new_order", 1, "", "", 0), 1),
     ProactiveAlert("permit_expired", CRITICAL, Title("Permit expired", 0, "TX"),
                    Message("permit_expired", 1, "TX", "", 1), 1)}

QueueEnqueue ==
    /\ \E a \in QueueAlerts :
          \E m \in {EnqueueAlert(MonitorState, a)} :
             /\ SetMonitor(m)
             /\ event' = Event("enqueue", 0, TRUE, FALSE, Rejected(m))
    /\ UNCHANGED <<taskVars, main_pc, summary>>
    /\ UNCHANGED asstVars

QueueMarkDelivered ==
    /\ \E i \in DOMAIN alert_queue :
          /\ SetMonitor(MarkDelivered(MonitorState, alert_queue[i]))
          /\ event' = [Event("mark", 0, TRUE, FALSE, {}) EXCEPT
                          !.uid = alert_queue[i].uid]
    /\ UNCHANGED <<taskVars, main_pc, summary>>
    /\ UNCHANGED asstVars

QueueClearOld ==
    /\ alert_queue' = ClearOldAlerts(alert_queue)
    /\ event' = Event("clear", 0, TRUE, FALSE, {})
    /\ UNCHANGED <<taskVars, delivered_keys, last_order_statuses,
                   last_order_ids, warned_permits, warned_deadlines,
                   next_uid, main_pc, summary>>
    /\ UNCHANGED asstVars

NextQueue ==
    \/ QueueEnqueue
    \/ QueueMarkDelivered
    \/ QueueClearOld
    \/ Tick

SpecQueue == InitLifecycle /\ [][NextQueue]_vars

\* The session of the voice application under the scheduling of the event
\* loop: a cycle may end by an unexpected exception, the user may stay
\* silent.
NextVoice ==
    \/ AppStart
    \/ \E g \in Gens : FastSnapshot(g, LifecycleDbs, {NoFault})
    \/ \E g \in Gens : FastCycle(g, LifecycleDbs, LifecyclePlans)
    \/ \E g \in Gens : FastBackoffWake(g)
    \/ \E g \in Gens : WeatherFirst(g)
    \/ \E g \in Gens : WeatherCycle(g, LifecycleDbs, {NoFault}, TRUE)
    \/ DeliverBegin
    \/ DeliverEnd
    \/ Listen
    \/ MainAwait
    \/ MainResume

\* What the event loop guarantees: a task whose sleep is over runs whenever
\* the running coroutine is suspended (strong fairness: the ready task is
\* served before the main coroutine is resumed), a speech that was started
\* ends, and the main loop goes on listening and checking for alerts.
\* That the user speaks (MainAwait) is not guaranteed.
FairVoice ==
    /\ \A g \in Gens : SF_vars(FastSnapshot(g, LifecycleDbs, {NoFault}))
    /\ \A g \in Gens : SF_vars(FastCycle(g, LifecycleDbs, LifecyclePlans))
    /\ \A g \in Gens : SF_vars(FastBackoffWake(g))
    /\ \A g \in Gens : SF_vars(WeatherFirst(g))
    /\ \A g \in Gens : SF_vars(WeatherCycle(g, LifecycleDbs, {NoFault}, TRUE))
    /\ WF_vars(AppStart)
    /\ WF_vars(DeliverBegin)
    /\ WF_vars(DeliverEnd)
    /\ WF_vars(Listen)
    /\ WF_vars(MainResume)

SpecVoice == Init /\ [][NextVoice]_vars /\ FairVoice

\* ----------------------------------------------------- detection cycles
\* Documents with permits and deadlines.  attached_at is in days from now
\* (the permit is valid PermitValidDays from it), deadlines in minutes.
DocIssue ==
    Doc(Some("open"), <<RouteEntry("TX", DateAt(0), "EXPIRED")>>,
        DateAt(DeadlineWarningHours * 60), NoDate, NoDate, {})
DocExpiring ==
    Doc(Some("open"),
        <<RouteEntry("TX", DateAt(-5), ""),
          RouteEntry("TX", NoDate, "Rejected")>>,
        DateAt(DeadlineWarningHours * 60 + 1), DateAt(720), NoDate, {})
DocOverdue == Doc(Some("open"), <<>>, BadDate, DateAt(-60), NoDate, {})
DocLate == Doc(Some("Delivered"), <<>>, DateAt(-60), NoDate, DateAt(720), {})

DetectDocs ==
    {DocOpen, DocDelivered, DocPermit, DocIssue, DocExpiring, DocOverdue,
     DocLate}

\* The database content with the orders of uo, order 1 holding d1 and
\* every other order of uo holding d2.
DetectDb(uo, d1, d2) ==
    [uo |-> uo,
     docs |-> [o \in OrderIds |->
                  IF o \notin uo THEN None
                  ELSE IF o = 1 THEN Some(d1) ELSE Some(d2)]]

\* What the database may hold when a cycle reads it: order 1 alone with
\* one of the documents, or orders 1 and 2.
DetectDbs ==
    {DetectDb({1}, d, d) : d \in DetectDocs \ {DocDelivered}}
        \cup {DetectDb({1, 2}, DocOpen, DocOverdue),
              DetectDb({1, 2}, DocPermit, DocDelivered)}

\* What the initial snapshot may find.
SnapshotDbs ==
    {DetectDb({1}, DocOpen, DocOpen), DetectDb({1, 2}, DocOpen, DocDelivered)}

\* A cycle meets no fault, or the find_one of order 1 raises in one phase.
DetectPlans ==
    {CleanPlan}
        \cup {CyclePlan([ids |-> FALSE, bad |-> 1], NoFault, NoFault,
                        NoFault, 5),
              CyclePlan(NoFault, NoFault, [ids |-> FALSE, bad |-> 1],
                        NoFault, 5),
              CyclePlan(NoFault, NoFault, NoFault,
                        [ids |-> FALSE, bad |-> 1], 5)}

\* One detection cycle of _monitor_loop, as FastCycle takes it while the
\* monitor runs, observed with the database content it read and the
\* faults it met.
DetectCycle(g, dbs, plans) ==
    /\ LoopFree
    /\ fast[g].pc = "sleep_poll"
    /\ ~MustCancel(fast[g])
    /\ running
    /\ \E db \in dbs, plan \in plans :
          \E m \in {RunCycle(MonitorState, db.uo, db.docs, plan)} :
             /\ SetMonitor(m)
             /\ event' = [plan |-> plan] @@
                             FullEvent("cycle", g, plan = CleanPlan,
                                       plan.steps >= 2 /\ plan.f[2].ids,
                                       Rejected(m), db,
                                       IF plan = CleanPlan
                                       THEN StatusChanged(db) ELSE {})
             /\ fast' = [fast EXCEPT ![g].pc =
                            IF plan.steps < 5 THEN "sleep_backoff"
                            ELSE LoopTest(running, "sleep_poll")]
    /\ UNCHANGED <<running, weather, gen, main_pc, summary>>
    /\ UNCHANGED asstVars

\* The fast loop of a session, with its detection cycles observed, while
\* the main coroutine is suspended.
NextDetect ==
    \/ AppStart
    \/ \E g \in Gens : FastSnapshot(g, SnapshotDbs, {NoFault})
    \/ \E g \in Gens : DetectCycle(g, DetectDbs, DetectPlans)

SpecDetect == Init /\ [][NextDetect]_vars

\* -------------------------------------------------- assistant sessions
\* The order ids a driver or client may hold (the newest is the largest),
\* and the ids of the orders collection an admin may name.
OrderNo(i) == 300 + 50 * i
UserOrders == {OrderNo(i) : i \in 1..MaxUserOrders}
OrderLists == {{OrderNo(i) : i \in 1..k} : k \in 0..MaxUserOrders}
AdminIds == {2892, 3001}
Stores == {{}, {2892}, AdminIds}
Roles == {"driver", "client", "admin"}

\* a, a blank, b
Sep(a, b) == a \o <<Blank>> \o b

\* "show me the {text} order" for row r of POSITION_MAPPINGS.
PositionQuery(r) ==
    Sep(Phrase(<<"show", "me", "the">>),
        Sep(POSITION_MAPPINGS[r].text, Phrase(<<"order">>)))

\* "show me the {n}{suffix} latest order"
OrdinalQuery(n, suffix) ==
    Sep(Phrase(<<"show", "me", "the">>),
        <<Num(n), W(suffix), Blank, W("latest"), Blank, W("order")>>)

PositionQueries == {PositionQuery(r) : r \in DOMAIN POSITION_MAPPINGS}

OrdinalQueries ==
    {OrdinalQuery(1, "st"), OrdinalQuery(2, "nd"), OrdinalQuery(3, "rd")}
        \cup {OrdinalQuery(n, "th") : n \in 4..(MaxUserOrders + 1)}

\* Queries of drivers and clients: a number, two numbers, no reference, a
\* capital letter, two phrases of the table.
NumberQueries ==
    {Sep(Phrase(<<"status", "of", "order">>), <<Num(n)>>) : n \in UserOrders}
        \cup {Sep(Phrase(<<"compare">>),
                  <<Num(999), Blank, W("and"), Blank, Num(n)>>) :
                 n \in UserOrders}
        \cup {<<Num(OrderNo(1)), Blank, W("not"), Blank, Num(OrderNo(2))>>,
              Sep(Phrase(<<"is", "order">>), <<Num(OrderNo(1)), W("b")>>)}

PlainQueries ==
    {Phrase(<<"what", "is", "the", "status">>),
     Phrase(<<"where", "is", "my", "load">>)}

MixedQueries ==
    {Phrase(<<"show", "the", "Latest", "order">>),
     Phrase(<<"the", "second", "newest", "order">>),
     Sep(Phrase(<<"the", "third", "last", "order", "not">>), <<Num(OrderNo(1))>>)}

\* Queries of admins: each pattern, an id that may be missing, a short
\* number, two ids.
AdminQueries ==
    {Sep(Phrase(<<"tell", "me", "about", "order">>), <<Num(2892)>>),
     Sep(Phrase(<<"tell", "me", "about", "Order">>), <<Hash, Num(2892)>>),
     Sep(Phrase(<<"open">>), <<Hash, Num(3001)>>),
     Sep(Phrase(<<"status">>), <<Num(3001)>>),
     Sep(Phrase(<<"details", "for">>), <<Num(2892)>>),
     Sep(Phrase(<<"order">>), <<Num(289)>>),
     Sep(Phrase(<<"orders">>), <<Num(3001)>>),
     Sep(Phrase(<<"order">>), <<Num(3001), Blank, W("not"), Blank, Num(2892)>>),
     Sep(Phrase(<<"id">>), <<Num(2892), W("x"), Blank, W("or"), Blank, Hash,
                             Num(3001)>>)}

ResolveQueries ==
    PositionQueries \cup OrdinalQueries \cup NumberQueries
        \cup PlainQueries \cup MixedQueries \cup AdminQueries

Currents == {None} \cup {Some(o) : o \in UserOrders \cup AdminIds}

\* resolve_order_context called once by any client on a query, a current
\* order and the data of a user.
Resolve ==
    /\ reply.op = "init"
    /\ \E q \in ResolveQueries, cur \in Currents, ids \in OrderLists,
          store \in Stores, dbUp \in BOOLEAN :
          \E res \in {ResolveOrderContext(q, cur, user_role, ids, store,
                                          dbUp)} :
             reply' = Reply("resolve", q, cur, SortDesc(ids), store, dbUp,
                            Outcome(<<>>, Empty, "", "", FALSE, TRUE, res,
                                    "none"))
    /\ UNCHANGED <<monVars, taskVars, main_pc, summary, event, user_role,
                   cacheVars, settings, filtered>>

\* The queries of a session: with keywords of one, two or three sets, with
\* a state named, and order queries of each kind.
KeywordQueries ==
    {Phrase(<<"state", "info", "for", "texas">>),
     Phrase(<<"tell", "me", "the", "provisions">>),
     Phrase(<<"Provision", "for", "texas", "and", "check", "permits">>),
     Phrase(<<"switch", "to", "states", "and", "show", "orders">>),
     Phrase(<<"state", "data", "permit", "list", "order", "list">>),
     Phrase(<<"check", "permits">>),
     Phrase(<<"check", "Permit", "and", "show", "orders">>),
     Phrase(<<"show", "orders">>),
     Phrase(<<"go", "back", "order">>)}

OrderQueries ==
    {PositionQuery(1), PositionQuery(17), PositionQuery(19),
     OrdinalQuery(3, "rd"),
     Sep(Phrase(<<"status", "of", "order">>), <<Num(OrderNo(2))>>),
     Phrase(<<"what", "is", "the", "status">>),
     Sep(Phrase(<<"tell", "me", "about", "order">>), <<Num(2892)>>)}

SessionQueries == KeywordQueries \cup OrderQueries

\* What the queries of a session may meet: nothing fails and the user has
\* no order or all of them; or one thing fails: the user is not found,
\* the database does not answer to the resolver or to the fetch, the cache
\* files cannot be used, the LLM does not answer.
SessionStore == UserOrders \cup AdminIds
SessionEnvs ==
    {Env(TRUE, ids, SessionStore, TRUE, TRUE, TRUE, TRUE) :
        ids \in {{}, UserOrders}}
    \cup {Env(FALSE, UserOrders, SessionStore, TRUE, TRUE, TRUE, TRUE),
          Env(TRUE, UserOrders, SessionStore, FALSE, TRUE, TRUE, TRUE),
          Env(TRUE, UserOrders, SessionStore, TRUE, FALSE, TRUE, TRUE),
          Env(TRUE, UserOrders, SessionStore, TRUE, FALSE, FALSE, TRUE),
          Env(TRUE, UserOrders, SessionStore, TRUE, TRUE, FALSE, TRUE),
          Env(TRUE, UserOrders, SessionStore, TRUE, TRUE, TRUE, FALSE)}

\* voice_app.process_command handing a query to handle_query.
Ask ==
    /\ \E q \in SessionQueries, env \in SessionEnvs :
          \E o \in {HandleQuery(OrderCacheState, q, user_role, env)} :
             /\ SetOrderCache(o.c)
             /\ reply' = Reply("query", q, current_order_id,
                               SortDesc(env.order_ids), env.store, env.dbFind,
                               o)
    /\ UNCHANGED <<monVars, taskVars, main_pc, summary, event, user_role,
                   settings, filtered>>

\* A session of any user, with the monitor left aside.
InitAssistant ==
    /\ running = FALSE
    /\ fast = [g \in Gens |-> NoTask]
    /\ weather = [g \in Gens |-> NoTask]
    /\ gen = 0
    /\ alert_queue = <<>>
    /\ delivered_keys = {}
    /\ last_order_statuses = [o \in OrderIds |-> None]
    /\ last_order_ids = {}
    /\ warned_permits = {}
    /\ warned_deadlines = {}
    /\ next_uid = 1
    /\ main_pc = "run"
    /\ summary = None
    /\ event = Event("init", 0, TRUE, FALSE, {})
    /\ user_role \in Roles
    /\ OrderCacheInit
    /\ reply = NoReply
    /\ settings = Configured
    /\ filtered = NoFilter

NextResolve == Resolve

SpecResolve == InitAssistant /\ [][NextResolve]_vars

NextAssistant == Ask

SpecAssistant == InitAssistant /\ [][NextAssistant]_vars

\* -------------------------------------------------------------- startup
\* voice_app.initialize_user, the loop that asks for the role: an answer of
\* VALID_ROLES is kept, any other is asked again.
EnterRole ==
    /\ main_pc = "role"
    /\ \E role \in Roles \cup {"manager"} :
          /\ event' = Event("input", 0, role \in Roles, FALSE, {})
          /\ IF role \in Roles
             THEN /\ user_role' = role
                  /\ main_pc' = IF role \in {"driver", "client"}
                                THEN "email" ELSE "init"
             ELSE UNCHANGED <<user_role, main_pc>>
    /\ UNCHANGED <<monVars, taskVars, summary, cacheVars, reply, settings,
                   filtered>>

\* voice_app.initialize_user, the loop that asks a driver or client for
\* the email: asked again until verify_email accepts it.
EnterEmail ==
    /\ main_pc = "email"
    /\ \E dbUp \in BOOLEAN, found \in BOOLEAN :
          \E ok \in {VerifyEmail(user_role, settings, dbUp, found)} :
             /\ event' = Event("input", 0, ok, FALSE, {})
             /\ main_pc' = IF ok THEN "init" ELSE "email"
    /\ UNCHANGED <<monVars, taskVars, summary>>
    /\ UNCHANGED asstVars

\* What the monitor meets in a process started with these settings:
\* without MONGO_URI every get_db() raises, so no phase reads anything.
StartupFaults == IF settings.mongo_uri THEN {NoFault} ELSE {IdsFault}
StartupPlans ==
    IF settings.mongo_uri THEN {CleanPlan}
    ELSE {CyclePlan(IdsFault, IdsFault, IdsFault, IdsFault, 5)}

\* The process from its start, with any credentials in the environment.
InitStartup ==
    /\ running = FALSE
    /\ fast = [g \in Gens |-> NoTask]
    /\ weather = [g \in Gens |-> NoTask]
    /\ gen = 0
    /\ alert_queue = <<>>
    /\ delivered_keys = {}
    /\ last_order_statuses = [o \in OrderIds |-> None]
    /\ last_order_ids = {}
    /\ warned_permits = {}
    /\ warned_deadlines = {}
    /\ next_uid = 1
    /\ main_pc = "role"
    /\ summary = None
    /\ event = Event("init", 0, TRUE, FALSE, {})
    /\ user_role = ""
    /\ OrderCacheInit
    /\ reply = NoReply
    /\ settings \in {Settings(m, k) : m \in BOOLEAN, k \in BOOLEAN}
    /\ filtered = NoFilter

NextStartup ==
    \/ EnterRole
    \/ EnterEmail
    \/ AppStart
    \/ \E g \in Gens : FastSnapshot(g, LifecycleDbs, StartupFaults)
    \/ \E g \in Gens : FastCycle(g, LifecycleDbs, StartupPlans)
    \/ \E g \in Gens : WeatherFirst(g)
    \/ Listen
    \/ MainAwait
    \/ MainResume

SpecStartup == InitStartup /\ [][NextStartup]_vars

\* --------------------------------------------------- role filter calls
\* Order data as the tests build it: any of these fields at the top level,
\* a dict under meta, a list of one route entry under routeData.
FilterKeys ==
    {"id", "order_status", "meta", "transactions", "permit_info", "routeData"}

RouteItem == Dict({<<"id", Scalar>>, <<"meta_data", Dict({})>>})

FieldValue(k) ==
    IF k = "routeData" THEN List({<<"0", RouteItem>>})
    ELSE IF k = "meta" THEN Dict({<<"source", Scalar>>})
    ELSE Scalar

SampleOrders ==
    {Dict({<<k, FieldValue(k)>> : k \in S}) : S \in SUBSET FilterKeys}

FilterRoles == Roles \cup {"unknown", "Admin"}

\* filter_order_by_role called once by any client on an order and a role.
FilterCall ==
    /\ filtered.op = "init"
    /\ \E order_data \in SampleOrders, role \in FilterRoles :
          filtered' = Filtered("filter", order_data, role,
                               FilterOrderByRole(order_data, role))
    /\ UNCHANGED <<monVars, taskVars, main_pc, summary, event, user_role,
                   cacheVars, reply, settings>>

NextFilter == FilterCall

SpecFilter == InitAssistant /\ [][NextFilter]_vars

\* ------------------------------------------------------------ claims
\* The identities of the alerts of a queue, and of its delivered alerts.
Uids(q) == {q[i].uid : i \in DOMAIN q}
DeliveredUids(q) == {q[i].uid : i \in {j \in DOMAIN q : q[j].delivered}}

\* C1: at-most-once delivery per logical event: no two alerts of the queue
\* with the same dedup key (kind, order id, title) are both marked
\* delivered.
C1_AtMostOnceDelivery ==
    \A i, j \in DOMAIN alert_queue :
        (i # j /\ AlertKey(alert_queue[i]) = AlertKey(alert_queue[j]))
            => ~(alert_queue[i].delivered /\ alert_queue[j].delivered)

\* C2: a fast-loop cycle without fault enqueues, for every visible order
\* whose fetched status differs from the stored one, a HIGH order_status
\* alert in that cycle, also when an earlier status alert of the order was
\* delivered.
C2_StatusChangeAlerted ==
    [][(event'.op = "cycle" /\ event'.clean) =>
          \A o \in event'.changed :
             \E i \in DOMAIN alert_queue' :
                /\ alert_queue'[i].alert_type = "order_status"
                /\ alert_queue'[i].order_id = o
                /\ alert_queue'[i].priority = HIGH
                /\ alert_queue'[i].uid >= next_uid]_vars

\* C3: a proactive delivery marks delivered only alerts whose message was
\* part of the summary that was spoken; the other pending alerts stay
\* undelivered.
C3_OnlySpokenMarked ==
    [][\A u \in DeliveredUids(alert_queue') \ DeliveredUids(alert_queue) :
          /\ ~IsNone(summary)
          /\ u \in Val(summary).uids]_vars

\* C4: cold start: from start() until the initial snapshot of the fast loop
\* has finished no alert is enqueued, and after the snapshot lastOrderIds
\* is the set of the user's visible order ids and lastOrderStatuses holds
\* the current status of each of them that has a document.
C4_ColdStart ==
    [][/\ (gen > 0 /\ fast[gen].pc = "created") => next_uid' = next_uid
       /\ event'.op = "snapshot" =>
             /\ last_order_ids' = event'.db.uo
             /\ \A o \in event'.db.uo :
                   ~IsNone(event'.db.docs[o]) =>
                       last_order_statuses'[o] =
                           Some(ExtractOrderStatus(Val(event'.db.docs[o])))
      ]_vars

\* C5: when fetching the user's order ids fails during the initial snapshot
\* or during the new-order phase of a cycle, lastOrderIds is left as it
\* was, and a snapshot leaves lastOrderStatuses as it was too.
C5_FailureKeepsSnapshot ==
    [][(event'.op \in {"snapshot", "cycle"} /\ event'.idsfail) =>
          /\ last_order_ids' = last_order_ids
          /\ event'.op = "snapshot" =>
                last_order_statuses' = last_order_statuses]_vars

\* The position in the queue q of the alert of identity u.
Pos(q, u) == CHOOSE i \in DOMAIN q : q[i].uid = u

\* C6: get_pending_alerts returns exactly the undelivered alerts of the
\* queue, by ascending priority, alerts of equal priority in the order in
\* which they were enqueued; has_alerts is true exactly when that list is
\* not empty.
C6_PendingSortedStable ==
    LET pending == GetPendingAlerts(alert_queue)
        undelivered == {i \in DOMAIN alert_queue : ~alert_queue[i].delivered}
    IN /\ Len(pending) = Cardinality(undelivered)
       /\ \A j \in undelivered :
             \E i \in DOMAIN pending : pending[i] = alert_queue[j]
       /\ \A i \in DOMAIN pending :
             \E j \in undelivered : pending[i] = alert_queue[j]
       /\ \A i, j \in DOMAIN pending :
             i < j =>
                /\ pending[i].priority <= pending[j].priority
                /\ pending[i].priority = pending[j].priority =>
                      Pos(alert_queue, pending[i].uid) <
                          Pos(alert_queue, pending[j].uid)
       /\ HasAlerts(alert_queue) <=> (pending # <<>>)

\* Three alerts are pending, a MEDIUM one enqueued before two HIGH ones:
\* get_pending_alerts moves the HIGH ones to the front, in their order.
C6_Witness ==
    /\ Len(alert_queue) = 3
    /\ \A i \in DOMAIN alert_queue : ~alert_queue[i].delivered
    /\ alert_queue[1].priority = MEDIUM
    /\ alert_queue[2].priority = HIGH
    /\ alert_queue[3].priority = HIGH
    /\ GetPendingAlerts(alert_queue) =
           <<alert_queue[2], alert_queue[3], alert_queue[1]>>

\* C7: once mark_delivered has recorded a dedup key the key stays recorded
\* and no step appends an alert with that key to the queue, also after
\* clear_old_alerts has purged the original alert; marking an alert of the
\* queue delivered a second time changes nothing.
C7_DeliveredKeyBlocks ==
    [][/\ delivered_keys \subseteq delivered_keys'
       /\ \A i \in DOMAIN alert_queue' :
             alert_queue'[i].uid >= next_uid =>
                 AlertKey(alert_queue'[i]) \notin delivered_keys
       /\ (/\ event'.op = "mark"
           /\ event'.uid \in DeliveredUids(alert_queue)) =>
              UNCHANGED monVars]_vars

\* _enqueue_alert was handed an alert whose key is recorded after
\* clear_old_alerts had purged the delivered alert with that key, and
\* nothing was appended.
C7_Witness ==
    /\ event.op = "enqueue"
    /\ \E k \in event.purged :
          /\ k \in delivered_keys
          /\ \A i \in DOMAIN alert_queue : AlertKey(alert_queue[i]) # k

\* C8: generate_proactive_summary returns nothing when no alert is pending;
\* while alerts are pending it returns a text made of at most the
\* SummaryMax pending alerts of highest priority, and the message of the
\* first of them alone when the LLM call fails.
C8_SummaryWhilePending ==
    [][event'.op = "deliver" =>
          LET pending == GetPendingAlerts(alert_queue)
          IN /\ ~HasAlerts(alert_queue) => IsNone(summary')
             /\ HasAlerts(alert_queue) =>
                   /\ ~IsNone(summary')
                   /\ Len(Val(summary').messages) <= SummaryMax
                   /\ \A i \in DOMAIN Val(summary').messages :
                         Val(summary').messages[i] = pending[i].message
                   /\ Val(summary').kind = "raw" =>
                         Val(summary').messages = <<pending[1].message>>
      ]_vars

\* The tasks of a loop that are neither done nor cancelled.
LiveTasks(tasks) == {g \in Gens : ~Done(tasks[g]) /\ ~tasks[g].cancelled}

\* C9: start() while running creates no task and changes no state, and at
\* most one _monitor_loop task and at most one _weather_loop task are live
\* (neither done nor cancelled) at any time.
C9_SingleStart ==
    /\ [](/\ Cardinality(LiveTasks(fast)) <= 1
          /\ Cardinality(LiveTasks(weather)) <= 1)
    /\ [][(event'.op = "start" /\ running) =>
             UNCHANGED <<taskVars, monVars, main_pc, summary>>]_vars

\* start() was called while the tasks of the second start() were running.
C9_Witness ==
    /\ event.op = "start"
    /\ running
    /\ gen = 2
    /\ event.gen = 2
    /\ fast[2].pc = "sleep_poll"
    /\ weather[2].pc # "created"

\* C10: after stop() no loop takes a snapshot, runs a detection phase or
\* enqueues an alert until start() is called again, and then only the
\* tasks of that start() do; a task into which the cancellation was thrown
\* is done, wherever it was suspended.
C10_StopHalts ==
    /\ [](\A g \in Gens : /\ fast[g].thrown => Done(fast[g])
                          /\ weather[g].thrown => Done(weather[g]))
    /\ [][(event'.op \in {"snapshot", "cycle", "weather"}
              \/ next_uid' > next_uid) =>
             /\ running
             /\ event'.gen = gen
             /\ ~fast[gen].cancelled
             /\ ~weather[gen].cancelled]_vars

\* stop() has cancelled both loops after alerts were enqueued, the
\* cancellation was thrown into both tasks and both have ended.
C10_Witness ==
    /\ ~running
    /\ gen = 1
    /\ next_uid > 1
    /\ fast[1].thrown /\ Done(fast[1])
    /\ weather[1].thrown /\ Done(weather[1])

\* C11: while the monitor is running and the task is not cancelled, the
\* fast loop, after a cycle ended by an unexpected exception, waits its
\* backoff, returns to the loop and executes another cycle: the backoff is
\* always followed by the sleep of the loop, and that sleep by a cycle.
C11_CycleFollowsFailure ==
    \A g \in Gens :
        /\ (fast[g].pc = "sleep_backoff") ~> (fast[g].pc = "sleep_poll")
        /\ (fast[g].pc = "sleep_poll" /\ event.op # "cycle")
               ~> (event.op = "cycle" /\ event.gen = g)

\* C12: while the monitor is running, the fast loop that sleeps between two
\* cycles always eventually executes its next detection cycle, whatever the
\* main loop does, also when every listen returns "none".
C12_FastLoopNotStarved ==
    \A g \in Gens :
        [](running /\ g = gen /\ fast[g].pc = "sleep_poll"
              => <>(event.op = "cycle" /\ event.gen = g))

\* Whether the lower-cased text of the last query holds a keyword of kws.
Asked(kws) == ContainsAny(LowerQuery(reply.q), kws)

\* C13: handle_query takes the first of provision, permit, order-switch
\* whose keywords the query holds: a provision keyword leads to the state
\* system whatever else the query holds, a permit keyword without a
\* provision keyword to the permit handling (the permit chat, or the
\* request to select an order), an order-switch keyword alone to the
\* switch, and only a query with no keyword is answered as an order query.
C13_DispatchPriority ==
    reply.op = "query" =>
        /\ Asked(PROVISION_KEYWORDS) => reply.route = "states"
        /\ (Asked(PERMIT_SWITCH_KEYWORDS) /\ ~Asked(PROVISION_KEYWORDS))
              => reply.route \in {"permits", "select_order"}
        /\ (Asked(ORDER_SWITCH_KEYWORDS) /\ ~Asked(PERMIT_SWITCH_KEYWORDS)
              /\ ~Asked(PROVISION_KEYWORDS)) => reply.route = "orders"
        /\ reply.route = "order_query"
              <=> ~(Asked(PROVISION_KEYWORDS) \/ Asked(PERMIT_SWITCH_KEYWORDS)
                       \/ Asked(ORDER_SWITCH_KEYWORDS))

\* A query with keywords of the three sets was routed to the state system.
C13_Witness ==
    /\ reply.op = "query"
    /\ Asked(PROVISION_KEYWORDS)
    /\ Asked(PERMIT_SWITCH_KEYWORDS)
    /\ Asked(ORDER_SWITCH_KEYWORDS)
    /\ reply.route = "states"

\* C14: no exception leaves handle_query, whatever is unavailable while
\* the subsystem it routed to produces its response.
C14_NoFailurePropagates ==
    reply.op = "query" => ~reply.raised

\* The last call of the resolver was for a driver or a client.
ResolvedForUser ==
    /\ reply.op = "resolve"
    /\ user_role \in {"driver", "client"}

\* The rows of POSITION_MAPPINGS whose phrase the last query holds.
RowsAsked ==
    {r \in DOMAIN POSITION_MAPPINGS :
        Contains(LowerQuery(reply.q), POSITION_MAPPINGS[r].text)}

\* C15: for a driver or client, a query that holds a position phrase of
\* the table (the first row of the table it holds; for "show me the
\* {phrase} order" that is the row of the phrase) resolves to
\* (true, [ids[index]]) when the index of the row is within the descending
\* list of the user's orders, "third last" over [500, 450, 400, 350] giving
\* 400, and to (false, [], no such order available) otherwise, also when a
\* current order is active.
C15_PositionResolution ==
    (ResolvedForUser /\ RowsAsked # {}) =>
        LET row == MinOf(RowsAsked)
            index == POSITION_MAPPINGS[row].index
        IN /\ \A r \in DOMAIN POSITION_MAPPINGS :
                 reply.q = PositionQuery(r) => row = r
           /\ IF index < Len(reply.ids)
              THEN /\ reply.res.switch
                   /\ reply.res.ids = <<reply.ids[index + 1]>>
              ELSE /\ ~reply.res.switch
                   /\ reply.res.ids = <<>>
                   /\ reply.res.why.fmt
                        = "No {position_text} order available for {user_type}"
           /\ (reply.q = Phrase(<<"show", "me", "the", "third", "last", "order">>)
                 /\ reply.ids = <<500, 450, 400, 350>>)
                => reply.res.ids = <<400>>

\* "show me the tenth last order" asked by a user with four orders while
\* an order is current: nothing is resolved.
C15_Witness ==
    /\ ResolvedForUser
    /\ reply.q = Phrase(<<"show", "me", "the", "tenth", "last", "order">>)
    /\ reply.ids = <<500, 450, 400, 350>>
    /\ ~IsNone(reply.cur)
    /\ ~reply.res.switch
    /\ reply.res.ids = <<>>

\* C16: for a driver or client, a query that holds a number n with an
\* ordinal suffix followed by "latest", with 1 <= n <= number of orders of
\* the user, resolves to (true, [ids[n-1]]).
C16_OrdinalResolution ==
    ResolvedForUser =>
        LET n == OrdinalMatch(LowerQuery(reply.q))
        IN (~IsNone(n) /\ 1 <= Val(n) /\ Val(n) <= Len(reply.ids)) =>
              /\ reply.res.switch
              /\ reply.res.ids = <<reply.ids[Val(n)]>>

\* The ids the patterns of the admin find in the last query (the leftmost
\* match of each pattern) that are orders of the store, by pattern.
RefsAsked ==
    {p \in 1..NumPatterns :
        LET m == Search(p, LowerQuery(reply.q))
        IN ~IsNone(m) /\ Val(m) \in reply.store}

\* C17: for an admin, when a pattern finds in the query an id that is an
\* order of the store, the result is (true, [the id of the first such
\* pattern]); otherwise it is (false, [current order]) when an order is
\* current and (false, [], "Please specify an order ID") when none is; an
\* id that is not in the store is never returned with should_switch.
C17_AdminResolution ==
    (reply.op = "resolve" /\ user_role = "admin") =>
        /\ reply.res.switch =>
              /\ Len(reply.res.ids) = 1
              /\ reply.res.ids[1] \in reply.store
        /\ (reply.dbFind /\ RefsAsked # {}) =>
              /\ reply.res.switch
              /\ reply.res.ids
                    = <<Val(Search(MinOf(RefsAsked), LowerQuery(reply.q)))>>
        /\ (~reply.dbFind \/ RefsAsked = {}) =>
              /\ ~reply.res.switch
              /\ IF ~IsNone(reply.cur)
                 THEN reply.res.ids = <<Val(reply.cur)>>
                 ELSE /\ reply.res.ids = <<>>
                      /\ reply.res.why = Plain("Please specify an order ID")

\* "tell me about order 2892" while order 2892 is not in the store and no
\* order is current: the admin is asked for an id.
C17_Witness ==
    /\ reply.op = "resolve"
    /\ user_role = "admin"
    /\ reply.q = Sep(Phrase(<<"tell", "me", "about", "order">>), <<Num(2892)>>)
    /\ reply.dbFind
    /\ 2892 \notin reply.store
    /\ IsNone(reply.cur)
    /\ reply.res = Resolved(FALSE, <<>>, Plain("Please specify an order ID"))

\* The positions of the last query that hold a number standing alone that
\* is an order of the user.
NumbersAsked ==
    {i \in DOMAIN reply.q :
        /\ reply.q[i].k = "digits"
        /\ i = 1 \/ reply.q[i - 1].k \in {"blank", "punct"}
        /\ i = Len(reply.q) \/ reply.q[i + 1].k \in {"blank", "punct"}
        /\ \E j \in DOMAIN reply.ids : reply.ids[j] = reply.q[i].n}

\* C18: for a driver or client whose query holds no position phrase and
\* no ordinal phrase: a number of the query that is an order of the user
\* gives (true, [the first such number]) whatever order is current; else a
\* current order gives (false, [current order]); else a user with orders
\* gets (true, [newest order]); else the result is (false, []).
C18_StrictPrecedence ==
    (ResolvedForUser /\ RowsAsked = {}
        /\ IsNone(OrdinalMatch(LowerQuery(reply.q)))) =>
        IF NumbersAsked # {}
        THEN /\ reply.res.switch
             /\ reply.res.ids = <<reply.q[MinOf(NumbersAsked)].n>>
        ELSE IF ~IsNone(reply.cur)
        THEN /\ ~reply.res.switch
             /\ reply.res.ids = <<Val(reply.cur)>>
        ELSE IF Len(reply.ids) > 0
        THEN /\ reply.res.switch
             /\ reply.res.ids = <<reply.ids[1]>>
        ELSE /\ ~reply.res.switch
             /\ reply.res.ids = <<>>

\* A number of the query that is an order of the user was chosen while
\* another order was current.
C18_Witness ==
    /\ ResolvedForUser
    /\ RowsAsked = {}
    /\ NumbersAsked # {}
    /\ ~IsNone(reply.cur)
    /\ reply.res.switch
    /\ reply.res.ids # <<Val(reply.cur)>>
    /\ Val(reply.cur) \in {reply.ids[j] : j \in DOMAIN reply.ids}

\* C19: when the resolver finds no order for a query (should_switch false
\* and no candidate: no matching order, or a position out of range), the
\* text handed back for that query is the explanation of the resolver and
\* no exception is raised, whether or not an order is current.
C19_ExplanationSurfaced ==
    (reply.op = "query" /\ reply.resolved /\ ~reply.res.switch
        /\ reply.res.ids = <<>>) =>
        /\ ~reply.raised
        /\ reply.response = reply.res.why

\* C20: after any sequence of queries current_details is set exactly when
\* current_order_id is set, and a query whose fetch of the order fails
\* leaves current_order_id, current_details and explanation as they were.
C20_OrderContextInvariant ==
    [][/\ IsNone(current_details') <=> IsNone(current_order_id')
       /\ reply'.fetch = "failed" =>
             UNCHANGED <<current_order_id, current_details, explanation>>]_vars

\* The fetch of another order failed while an order was current.
C20_Witness ==
    /\ reply.op = "query"
    /\ reply.fetch = "failed"
    /\ ~IsNone(reply.cur)
    /\ reply.res.switch
    /\ reply.res.ids # <<Val(reply.cur)>>
    /\ current_order_id = reply.cur
    /\ ~IsNone(current_details)

\* The numbers of the last query that stand alone and are no order of the
\* user.
ForeignNumbers ==
    {reply.q[i].n : i \in {j \in DOMAIN reply.q :
        /\ reply.q[j].k = "digits"
        /\ j = 1 \/ reply.q[j - 1].k \in {"blank", "punct"}
        /\ j = Len(reply.q) \/ reply.q[j + 1].k \in {"blank", "punct"}
        /\ \A k \in DOMAIN reply.ids : reply.ids[k] # reply.q[j].n}}

\* C30: for a driver or client, whenever resolve_order_context returns
\* should_switch true its candidate list is one order id of the user's own
\* order list, whatever numbers or phrases the query holds; a number of the
\* query that is not an order of the user is never the candidate.
C30_OwnOrdersOnly ==
    (ResolvedForUser /\ reply.res.switch) =>
        /\ Len(reply.res.ids) = 1
        /\ \E k \in DOMAIN reply.ids : reply.ids[k] = reply.res.ids[1]
        /\ reply.res.ids[1] \notin ForeignNumbers

\* A query that names a number the user does not hold, ahead of one of the
\* user's orders, switched to the user's order.
C30_Witness ==
    /\ ResolvedForUser
    /\ ForeignNumbers # {}
    /\ NumbersAsked # {}
    /\ reply.res.switch
    /\ reply.res.ids = <<reply.q[MinOf(NumbersAsked)].n>>
    /\ \E i \in DOMAIN reply.q :
          /\ i < MinOf(NumbersAsked)
          /\ reply.q[i].k = "digits"
          /\ reply.q[i].n \in ForeignNumbers

\* C21: fatal misconfiguration: when a required credential (MongoDB URI or
\* LLM API key) is missing, the process never enters the interactive
\* listen/respond loop, for every role.
C21_NoLoopWhenMisconfigured ==
    Validate(settings) # <<>> => event.op # "listen"

\* The keys of a dict value.
Keys(v) == {p[1] : p \in v.e}

\* C22: filter_order_by_role called with a role that is not driver,
\* client or admin returns the order data, its id field still present,
\* instead of failing.
C22_UnknownRoleReturnsData ==
    (/\ filtered.op = "filter"
     /\ filtered.role \notin {"driver", "client", "admin"}
     /\ "id" \in Keys(filtered.order)) =>
        /\ ~filtered.raised
        /\ "id" \in Keys(filtered.value)

\* The alerts appended to the queue by the step.
NewAlerts ==
    {alert_queue'[i] :
        i \in {j \in DOMAIN alert_queue' : alert_queue'[j].uid >= next_uid}}

PermitTypes == {"permit_expired", "permit_expiring", "permit_issue"}
DeadlineTypes == {"deadline_approaching", "deadline_overdue"}

\* The permit key {orderId}_{stateName} of a permit alert.
PermitKeyOf(a) == <<a.order_id, a.title[3]>>

\* The permit alerts of the queue for the key k.
PermitAlerts(k) ==
    {i \in DOMAIN alert_queue :
        /\ alert_queue[i].alert_type \in PermitTypes
        /\ PermitKeyOf(alert_queue[i]) = k}

\* The last step was a detection cycle without fault.
CleanCycle == event.op = "cycle" /\ event.clean

\* C23: permit alerts are raised at most once per permit key: a step
\* enqueues a permit alert (expired, expiring or issue) only for a key that
\* is not yet in _warned_permits, at most one per key, and the key is in
\* _warned_permits from then on; a cycle without fault over the data the
\* cycle before it read without fault enqueues no permit alert.
C23_PermitOncePerKey ==
    [][/\ warned_permits \subseteq warned_permits'
       /\ \A a \in NewAlerts :
             a.alert_type \in PermitTypes =>
                /\ PermitKeyOf(a) \notin warned_permits
                /\ PermitKeyOf(a) \in warned_permits'
                /\ \A b \in NewAlerts :
                      (b.alert_type \in PermitTypes
                          /\ PermitKeyOf(b) = PermitKeyOf(a)) => b = a
       /\ (CleanCycle /\ event'.op = "cycle" /\ event'.clean
              /\ event'.db = event.db) =>
             \A a \in NewAlerts : a.alert_type \notin PermitTypes
      ]_vars

\* The queue holds one permit alert for the permit TX of order 1, raised
\* when it was expiring, and a later cycle without fault has read the
\* permit expired and rejected.
C23_Witness ==
    /\ CleanCycle
    /\ event.db = DetectDb({1}, DocPermit, DocPermit)
    /\ Cardinality(PermitAlerts(<<1, "TX">>)) = 1
    /\ \A i \in PermitAlerts(<<1, "TX">>) :
          alert_queue[i].alert_type = "permit_expiring"

\* The step is a detection cycle that met no fault.
CleanCycleStep == event'.op = "cycle" /\ event'.clean

\* The document the cycle of the step read for the order o.
DocRead(o) == Val(event'.db.docs[o])

\* C24: permit status issues are alerted independently of the expiry
\* estimate: for every route entry whose status is expired, rejected or
\* cancelled (in any case of letters) and whose permit key had no alert in
\* an earlier cycle, the cycle enqueues a CRITICAL permit_issue alert,
\* whatever attached_at is.
C24_StatusIssueIndependent ==
    [][CleanCycleStep =>
          \A o \in event'.db.uo :
             \A i \in DOMAIN DocRead(o).routeData :
                LET e == DocRead(o).routeData[i]
                IN (/\ Lower(e.permit_status) \in
                          {"expired", "rejected", "cancelled"}
                    /\ <<o, e.product_name>> \notin warned_permits) =>
                      \E a \in NewAlerts :
                         /\ a.alert_type = "permit_issue"
                         /\ a.priority = CRITICAL
                         /\ PermitKeyOf(a) = <<o, e.product_name>>
      ]_vars

\* The deadline alerts of the queue for the order o.
DeadlineAlerts(o) ==
    {i \in DOMAIN alert_queue :
        /\ alert_queue[i].alert_type \in DeadlineTypes
        /\ alert_queue[i].order_id = o}

\* C26: each order receives at most one deadline alert per session: a step
\* enqueues a deadline alert (approaching or overdue) only for an order
\* that is not yet in _warned_deadlines, at most one per order, and the
\* order is in _warned_deadlines from then on.
C26_DeadlineOncePerOrder ==
    [][/\ warned_deadlines \subseteq warned_deadlines'
       /\ \A a \in NewAlerts :
             a.alert_type \in DeadlineTypes =>
                /\ a.order_id \notin warned_deadlines
                /\ a.order_id \in warned_deadlines'
                /\ \A b \in NewAlerts :
                      (b.alert_type \in DeadlineTypes
                          /\ b.order_id = a.order_id) => b = a
      ]_vars

\* Order 1 got deadline_approaching, and a later cycle without fault has
\* read it overdue and open: the queue holds the first alert only.
C26_Witness ==
    /\ CleanCycle
    /\ event.db = DetectDb({1}, DocOverdue, DocOverdue)
    /\ Cardinality(DeadlineAlerts(1)) = 1
    /\ \A i \in DeadlineAlerts(1) :
          alert_queue[i].alert_type = "deadline_approaching"

\* The deadline of a document: the first of delivery_date, end_date and
\* estimated_delivery that is present and parseable, in minutes from now;
\* None when there is none.
FirstDeadline(doc) ==
    LET fields == <<doc.delivery_date, doc.end_date, doc.estimated_delivery>>
        usable == {i \in DOMAIN fields :
                      fields[i].present /\ fields[i].parseable}
    IN IF usable = {} THEN None ELSE Some(fields[MinOf(usable)].rel)

\* The order status of the document closes the order.
Closed(doc) ==
    Lower(ExtractOrderStatus(doc)) \in {"completed", "delivered", "closed"}

\* The step enqueued a deadline alert of the given type for the order o.
DeadlineRaised(type, o) ==
    \E a \in NewAlerts : a.alert_type = type /\ a.order_id = o

\* C25: the deadline decision of an order is taken from the first of
\* delivery_date, end_date, estimated_delivery that is present and
\* parseable: when that field yields no alert (further away than the
\* warning window, or overdue with a completed, delivered or closed
\* status) the later fields are not consulted and the cycle enqueues no
\* deadline alert for the order.
C25_FirstDateDecides ==
    [][CleanCycleStep =>
          \A o \in event'.db.uo :
             LET deadline == FirstDeadline(DocRead(o))
             IN (/\ ~IsNone(deadline)
                 /\ \/ Val(deadline) > DeadlineWarningHours * 60
                    \/ Val(deadline) <= 0 /\ Closed(DocRead(o))) =>
                   \A type \in DeadlineTypes : ~DeadlineRaised(type, o)
      ]_vars

\* C27: deadline boundary: for an order not yet warned, with
\* hoursRemaining taken from the deadline of its document,
\* deadline_approaching is enqueued exactly when
\* 0 < hoursRemaining <= deadlineWarningHours, and deadline_overdue exactly
\* when hoursRemaining <= 0 and the order status is not completed,
\* delivered or closed.
C27_DeadlineBoundary ==
    [][CleanCycleStep =>
          \A o \in event'.db.uo \ warned_deadlines :
             LET deadline == FirstDeadline(DocRead(o))
             IN ~IsNone(deadline) =>
                   /\ DeadlineRaised("deadline_approaching", o) <=>
                         /\ 0 < Val(deadline)
                         /\ Val(deadline) <= DeadlineWarningHours * 60
                   /\ DeadlineRaised("deadline_overdue", o) <=>
                         /\ Val(deadline) <= 0
                         /\ ~Closed(DocRead(o))
      ]_vars

\* The order whose find_one raises in phase k of the cycle of the step
\* (0: none).
FailedIn(k) == event'.plan.f[k].bad

\* C28: per-entity errors are contained: when the fetch of one order
\* raises inside a detection phase, the same phase still processes the
\* other orders of the cycle (the status phase stores their status, the
\* deadline phase alerts the overdue ones) and the later phases of the
\* cycle still run.
C28_EntityErrorsContained ==
    [][(event'.op = "cycle" /\ \E k \in 1..4 : FailedIn(k) # 0) =>
          \A o \in event'.db.uo :
             /\ o # FailedIn(1) =>
                   last_order_statuses'[o] =
                       Some(ExtractOrderStatus(DocRead(o)))
             /\ (/\ o # FailedIn(4)
                 /\ o \notin warned_deadlines
                 /\ DocRead(o) = DocOverdue) =>
                   DeadlineRaised("deadline_overdue", o)
      ]_vars

\* C29: delivery does not race with detection: an alert a background loop
\* enqueues while _deliver_proactive_alerts is suspended speaking a summary
\* is still undelivered when the delivery returns; the delivery marks only
\* alerts that were pending when the summary was generated.  (A summary of
\* the LLM over fewer than SummaryMax alerts describes every alert that
\* was pending then.)
C29_DeliveryDoesNotRace ==
    [][(/\ main_pc = "speak_alert" /\ main_pc' = "run"
        /\ ~IsNone(summary)
        /\ Val(summary).kind = "llm"
        /\ Cardinality(Val(summary).uids) < SummaryMax) =>
          \A i \in DOMAIN alert_queue' :
             (alert_queue'[i].uid \notin Val(summary).uids
                 /\ alert_queue'[i].uid \notin DeliveredUids(alert_queue))
                => ~alert_queue'[i].delivered]_vars

\* ------------------------------------------------------ type invariant
TypeOK ==
    /\ running \in BOOLEAN
    /\ gen \in 0..MaxStarts
    /\ next_uid \in 1..(MaxAlerts + 1)
    /\ main_pc \in {"role", "email", "init", "run", "await", "speak_alert"}
    /\ settings \in {Settings(m, k) : m \in BOOLEAN, k \in BOOLEAN}
    /\ last_order_ids \subseteq OrderIds
    /\ warned_deadlines \subseteq OrderIds


====
